---- MODULE Spec2Model ----
(***************************************************************************)
(* Dots: the board state and capture-resolution engine of GameLogic        *)
(* (src/dots/game_logic.py).  The state is the fields of one GameLogic     *)
(* object; every public method is one action.  The methods themselves are  *)
(* operators over a record `g` holding the object's fields, so that a      *)
(* method calling another method is an operator using another operator.    *)
(***************************************************************************)
EXTENDS Integers, Sequences, FiniteSets, TLC

VARIABLES
    _grid_width,      \* self._grid_width
    _grid_height,     \* self._grid_height
    _grid,            \* self._grid, indexed _grid[y][x]
    _filled_cells,    \* self._filled_cells
    scores,          \* self.scores
    current_player,  \* self.current_player
    lines,           \* self.lines
    last_captured,   \* self.last_captured
    _game_ui,        \* self._game_ui as a mock sees it: what the call in progress did to
                     \* the scores and which notifications it sent, in order
    call,            \* the most recent method call: its name, arguments and result
    opening,         \* the marks the caller's opening has still to place
    _mode,           \* DotsGame._mode
    _game_logic,     \* DotsGame._game_logic is not None (the fields above are its fields)
    _root_after,     \* the _make_ai_move callbacks self._root.after has scheduled and not yet run
    name_window,     \* the open winner dialogs of _show_winner_dialog, oldest first
    game_over_window, \* how many times _show_game_over_message has run
    messagebox,      \* the messagebox.showinfo call save_and_close is waiting in (<<>> if none)
    event,           \* the most recent handler of DotsGame that ran, and what it did
    _leaderboard_file, \* leaderboard.json: whether it exists and the records in it
    lb_call          \* the most recent update_leaderboard call: arguments, result, list before

\* The fields of DotsGame and the record of its last handler.
uiVars == <<_mode, _game_logic, _root_after, name_window, game_over_window, messagebox,
            event>>

\* The leaderboard file and the record of the last call on it.
lbVars == <<_leaderboard_file, lb_call>>

vars == <<_grid_width, _grid_height, _grid, _filled_cells, scores, current_player,
          lines, last_captured, _game_ui, call, opening, uiVars, lbVars>>

gameVars == <<_grid_width, _grid_height, _grid, _filled_cells, scores, current_player,
              lines, last_captured>>

----------------------------------------------------------------------------
(* Class constants of GameLogic *)

PLAYER_1 == 1
PLAYER_2 == 2
EMPTY_CELL == 0
INITIAL_FILLED_CELLS == 0
MAX_ATTEMPTS == 500

FOUR_DIRECTIONS == << <<-1, 0>>, <<1, 0>>, <<0, -1>>, <<0, 1>> >>
EIGHT_DIRECTIONS == << <<-1, -1>>, <<-1, 0>>, <<-1, 1>>, <<0, -1>>,
                       <<0, 1>>, <<1, -1>>, <<1, 0>>, <<1, 1>> >>

(* constants.py: the pixel geometry of the canvas *)
CELL_SIZE == 20
OFFSET_X == 20
OFFSET_Y == 20

player_colors == (PLAYER_1 :> "darkblue") @@ (PLAYER_2 :> "darkred")

----------------------------------------------------------------------------
(* Bounds of the exploration *)

\* Every explored match starts with a new game and an opening (a fixed sequence
\* of place_dot and switch_player calls) that leaves at most MaxFree of the
\* cells its position marks unplaced; every call after the opening is arbitrary.
MaxFree == 2

\* place_dot is called with x in -Margin..width+Margin, y in -Margin..height+Margin.
Margin == 1

----------------------------------------------------------------------------
(* The GameLogic object as a record *)

\* The one element of a singleton set.  A value that several later steps read
\* is bound once, as x in {f(x) : x \in {value}}.
Only(S) == CHOOSE v \in S : TRUE

Other(player) == IF player = PLAYER_1 THEN PLAYER_2 ELSE PLAYER_1

GameLogicInit(width, height) ==
    [ w             |-> width,
      h             |-> height,
      scores        |-> (PLAYER_1 :> INITIAL_FILLED_CELLS) @@ (PLAYER_2 :> INITIAL_FILLED_CELLS),
      grid          |-> [y \in 0..height |-> [x \in 0..width |-> EMPTY_CELL]],
      current_player |-> PLAYER_1,
      lines         |-> <<>>,
      last_captured |-> INITIAL_FILLED_CELLS,
      total_cells   |-> (width + 1) * (height + 1),
      filled_cells  |-> INITIAL_FILLED_CELLS,
      game_ui       |-> <<>> ]

InBounds(g, x, y) == 0 <= x /\ x <= g.w /\ 0 <= y /\ y <= g.h

_is_board_full(g) == g.filled_cells >= g.total_cells

\* is_valid_move with the upper bounds excluded (range-style bounds).
is_valid_move_ExclusiveBounds(g, grid_x, grid_y) ==
    IF ~(0 <= grid_x /\ grid_x < g.w /\ 0 <= grid_y /\ grid_y < g.h) THEN FALSE
    ELSE g.grid[grid_y][grid_x] = EMPTY_CELL

is_valid_move(g, grid_x, grid_y) ==
    IF ~InBounds(g, grid_x, grid_y) THEN FALSE
    ELSE g.grid[grid_y][grid_x] = EMPTY_CELL

\* _validate_move testing the bounds only.
_validate_move_BoundsOnly(g, grid_x, grid_y) == InBounds(g, grid_x, grid_y)

_validate_move(g, grid_x, grid_y) ==
    IF ~InBounds(g, grid_x, grid_y) THEN FALSE
    ELSE g.grid[grid_y][grid_x] = EMPTY_CELL

\* _execute_move without the counter update.
_execute_move_NoCount(g, grid_x, grid_y) ==
    [g EXCEPT !.grid[grid_y][grid_x] = g.current_player]

_execute_move(g, grid_x, grid_y) ==
    [g EXCEPT !.grid[grid_y][grid_x] = g.current_player,
              !.filled_cells = @ + 1]

----------------------------------------------------------------------------
(* _get_group_with_status: breadth-first flood fill, then the boundary re-scan *)

\* ScanNeighbours never clearing is_surrounded at the border.
RECURSIVE ScanNeighbours_IgnoresBorder(_, _, _, _, _)
ScanNeighbours_IgnoresBorder(g, player, c, i, acc) ==
    IF i > Len(FOUR_DIRECTIONS) THEN acc
    ELSE LET nx == c[1] + FOUR_DIRECTIONS[i][1]
             ny == c[2] + FOUR_DIRECTIONS[i][2]
             next ==
                 IF InBounds(g, nx, ny) /\ <<nx, ny>> \notin acc.visited
                    /\ (g.grid[ny][nx] = player \/ g.grid[ny][nx] = EMPTY_CELL)
                 THEN [acc EXCEPT !.visited = @ \cup {<<nx, ny>>},
                                  !.queue = Append(@, <<nx, ny>>)]
                 ELSE acc
         IN  ScanNeighbours_IgnoresBorder(g, player, c, i + 1, next)

\* ScanNeighbours following the marks of player only, not the empty cells.
RECURSIVE ScanNeighbours_OwnedOnly(_, _, _, _, _)
ScanNeighbours_OwnedOnly(g, player, c, i, acc) ==
    IF i > Len(FOUR_DIRECTIONS) THEN acc
    ELSE LET nx == c[1] + FOUR_DIRECTIONS[i][1]
             ny == c[2] + FOUR_DIRECTIONS[i][2]
             next ==
                 IF InBounds(g, nx, ny)
                 THEN IF <<nx, ny>> \notin acc.visited /\ g.grid[ny][nx] = player
                      THEN [acc EXCEPT !.visited = @ \cup {<<nx, ny>>},
                                       !.queue = Append(@, <<nx, ny>>)]
                      ELSE acc
                 ELSE [acc EXCEPT !.is_surrounded = FALSE]
         IN  ScanNeighbours_OwnedOnly(g, player, c, i + 1, next)

\* The four neighbours of the dequeued cell c, in FOUR_DIRECTIONS order,
\* starting at direction i.  acc = [queue, visited, is_surrounded].
RECURSIVE ScanNeighbours(_, _, _, _, _)
ScanNeighbours(g, player, c, i, acc) ==
    IF i > Len(FOUR_DIRECTIONS) THEN acc
    ELSE LET nx == c[1] + FOUR_DIRECTIONS[i][1]
             ny == c[2] + FOUR_DIRECTIONS[i][2]
             next ==
                 IF InBounds(g, nx, ny)
                 THEN IF <<nx, ny>> \notin acc.visited
                         /\ (g.grid[ny][nx] = player \/ g.grid[ny][nx] = EMPTY_CELL)
                      THEN [acc EXCEPT !.visited = @ \cup {<<nx, ny>>},
                                       !.queue = Append(@, <<nx, ny>>)]
                      ELSE acc
                 ELSE [acc EXCEPT !.is_surrounded = FALSE]
         IN  ScanNeighbours(g, player, c, i + 1, next)

\* while queue: popleft, append to group, scan the neighbours.
RECURSIVE Traverse(_, _, _, _)
Traverse(g, player, group, acc) ==
    IF acc.queue = <<>> THEN [group |-> group, is_surrounded |-> acc.is_surrounded]
    ELSE LET c == Head(acc.queue)
             popped == [acc EXCEPT !.queue = Tail(@)]
         IN  Traverse(g, player, Append(group, c), ScanNeighbours(g, player, c, 1, popped))

SeqToSet(s) == {s[i] : i \in 1..Len(s)}

\* The re-scan without the membership test.
RescanViolated_ForgetsMembership(g, group, opponent) ==
    \E i \in 1..Len(group), d \in 1..Len(FOUR_DIRECTIONS) :
        LET nx == group[i][1] + FOUR_DIRECTIONS[d][1]
            ny == group[i][2] + FOUR_DIRECTIONS[d][2]
        IN  /\ InBounds(g, nx, ny)
            /\ g.grid[ny][nx] # opponent

\* The re-scan taking an empty neighbour as an opening even inside the group.
RescanViolated_EmptyIsOpen(g, group, opponent) ==
    \E i \in 1..Len(group), d \in 1..Len(FOUR_DIRECTIONS) :
        LET nx == group[i][1] + FOUR_DIRECTIONS[d][1]
            ny == group[i][2] + FOUR_DIRECTIONS[d][2]
        IN  /\ InBounds(g, nx, ny)
            /\ g.grid[ny][nx] = EMPTY_CELL

\* The re-scan: some in-bounds neighbour of a group cell is neither a group
\* member nor an opponent mark.  (The code breaks at the first one.)
RescanViolated(g, group, opponent) ==
    \E i \in 1..Len(group), d \in 1..Len(FOUR_DIRECTIONS) :
        LET nx == group[i][1] + FOUR_DIRECTIONS[d][1]
            ny == group[i][2] + FOUR_DIRECTIONS[d][2]
        IN  /\ InBounds(g, nx, ny)
            /\ <<nx, ny>> \notin SeqToSet(group)
            /\ g.grid[ny][nx] # opponent

_get_group_with_status(g, x, y, player) ==
    Only({ [group |-> t.group,
            is_surrounded |-> t.is_surrounded /\ ~RescanViolated(g, t.group, Other(player))] :
             t \in { Traverse(g, player, <<>>,
                              [queue |-> << <<x, y>> >>, visited |-> {<<x, y>>},
                               is_surrounded |-> TRUE]) } })

\* The count taking every cell of the group, empty ones included.
CountOwned_CountsAll(g, group, player) == Len(group)

\* sum(1 for gx, gy in group if _grid[gy][gx] == player)
CountOwned(g, group, player) ==
    Cardinality({i \in 1..Len(group) : g.grid[group[i][2]][group[i][1]] = player})

----------------------------------------------------------------------------
(* Captures, self-capture and segments *)

\* The capture loop counting every neighbouring opponent group, enclosed or not.
RECURSIVE CapturedFrom_IgnoresStatus(_, _, _, _)
CapturedFrom_IgnoresStatus(g, x, y, i) ==
    IF i > Len(FOUR_DIRECTIONS) THEN 0
    ELSE LET opponent == Other(g.current_player)
             nx == x + FOUR_DIRECTIONS[i][1]
             ny == y + FOUR_DIRECTIONS[i][2]
             here ==
                 IF InBounds(g, nx, ny) /\ g.grid[ny][nx] = opponent
                 THEN Only({ CountOwned(g, r.group, opponent) :
                               r \in {_get_group_with_status(g, nx, ny, opponent)} })
                 ELSE 0
         IN  here + CapturedFrom_IgnoresStatus(g, x, y, i + 1)

\* The capture loop counting a group only from the first direction that
\* reaches it (a visited set shared by the four traversals).
RECURSIVE CapturedFrom_CountsGroupOnce(_, _, _, _)
CapturedFrom_CountsGroupOnce(g, x, y, i) ==
    IF i > Len(FOUR_DIRECTIONS) THEN 0
    ELSE LET opponent == Other(g.current_player)
             nx == x + FOUR_DIRECTIONS[i][1]
             ny == y + FOUR_DIRECTIONS[i][2]
             here ==
                 IF InBounds(g, nx, ny) /\ g.grid[ny][nx] = opponent
                 THEN Only({ IF /\ r.is_surrounded
                                /\ \A j \in 1..(i - 1) :
                                      \A k \in 1..Len(r.group) :
                                          r.group[k] # <<x + FOUR_DIRECTIONS[j][1],
                                                         y + FOUR_DIRECTIONS[j][2]>>
                             THEN CountOwned(g, r.group, opponent) ELSE 0 :
                               r \in {_get_group_with_status(g, nx, ny, opponent)} })
                 ELSE 0
         IN  here + CapturedFrom_CountsGroupOnce(g, x, y, i + 1)

RECURSIVE CapturedFrom(_, _, _, _)
CapturedFrom(g, x, y, i) ==
    IF i > Len(FOUR_DIRECTIONS) THEN 0
    ELSE LET opponent == Other(g.current_player)
             nx == x + FOUR_DIRECTIONS[i][1]
             ny == y + FOUR_DIRECTIONS[i][2]
             here ==
                 IF InBounds(g, nx, ny) /\ g.grid[ny][nx] = opponent
                 THEN Only({ IF r.is_surrounded THEN CountOwned(g, r.group, opponent) ELSE 0 :
                               r \in {_get_group_with_status(g, nx, ny, opponent)} })
                 ELSE 0
         IN  here + CapturedFrom(g, x, y, i + 1)

\* Returns the object with last_captured set; the returned count is last_captured.
_check_captures(g, x, y) ==
    [g EXCEPT !.last_captured = CapturedFrom(g, x, y, 1)]

\* self.scores[player] += amount, as the mock of the UI logs it.
ScoreAdded(player, amount) == <<"scores", player, amount>>

\* self._game_ui.update_scoreboard()
update_scoreboard == <<"update_scoreboard">>

\* _handle_captures without the notification.
_handle_captures_NoNotification(g, grid_x, grid_y) ==
    Only({ IF g1.last_captured > INITIAL_FILLED_CELLS
           THEN [g1 EXCEPT !.scores[g.current_player] = @ + g1.last_captured,
                           !.game_ui = Append(@, ScoreAdded(g.current_player, g1.last_captured))]
           ELSE g1 :
             g1 \in {_check_captures(g, grid_x, grid_y)} })

_handle_captures(g, grid_x, grid_y) ==
    Only({ IF g1.last_captured > INITIAL_FILLED_CELLS
           THEN [g1 EXCEPT !.scores[g.current_player] = @ + g1.last_captured,
                           !.game_ui = @ \o << ScoreAdded(g.current_player, g1.last_captured),
                                               update_scoreboard >>]
           ELSE g1 :
             g1 \in {_check_captures(g, grid_x, grid_y)} })

\* The self-capture loop taking the points from the mover instead of crediting
\* the opponent.
RECURSIVE SelfCaptureFrom_TakesFromMover(_, _, _, _)
SelfCaptureFrom_TakesFromMover(g, grid_x, grid_y, i) ==
    IF i > Len(FOUR_DIRECTIONS) THEN g
    ELSE LET nx == grid_x + FOUR_DIRECTIONS[i][1]
             ny == grid_y + FOUR_DIRECTIONS[i][2]
             g1 ==
                 IF InBounds(g, nx, ny) /\ g.grid[ny][nx] = g.current_player
                 THEN Only({ IF r.is_surrounded /\ self_captures > 0
                             THEN [g EXCEPT !.scores[g.current_player] = @ - self_captures,
                                            !.game_ui = @ \o << ScoreAdded(g.current_player, 0 - self_captures),
                                                                update_scoreboard >>]
                             ELSE g :
                               <<r, self_captures>> \in
                                   { <<q, CountOwned(g, q.group, g.current_player)>> :
                                       q \in {_get_group_with_status(g, nx, ny, g.current_player)} } })
                 ELSE g
         IN  SelfCaptureFrom_TakesFromMover(g1, grid_x, grid_y, i + 1)

RECURSIVE SelfCaptureFrom(_, _, _, _)
SelfCaptureFrom(g, grid_x, grid_y, i) ==
    IF i > Len(FOUR_DIRECTIONS) THEN g
    ELSE LET opponent == Other(g.current_player)
             nx == grid_x + FOUR_DIRECTIONS[i][1]
             ny == grid_y + FOUR_DIRECTIONS[i][2]
             g1 ==
                 IF InBounds(g, nx, ny) /\ g.grid[ny][nx] = g.current_player
                 THEN Only({ IF r.is_surrounded /\ self_captures > 0
                             THEN [g EXCEPT !.scores[opponent] = @ + self_captures,
                                            !.game_ui = @ \o << ScoreAdded(opponent, self_captures),
                                                                update_scoreboard >>]
                             ELSE g :
                               <<r, self_captures>> \in
                                   { <<q, CountOwned(g, q.group, g.current_player)>> :
                                       q \in {_get_group_with_status(g, nx, ny, g.current_player)} } })
                 ELSE g
         IN  SelfCaptureFrom(g1, grid_x, grid_y, i + 1)

\* _check_self_capture adding the opponent's credit to last_captured as well.
_check_self_capture_AddsToLastCaptured(g, grid_x, grid_y) ==
    Only({ [r EXCEPT !.last_captured =
                        @ + r.scores[Other(g.current_player)] - g.scores[Other(g.current_player)]] :
             r \in {SelfCaptureFrom(g, grid_x, grid_y, 1)} })

_check_self_capture(g, grid_x, grid_y) == SelfCaptureFrom(g, grid_x, grid_y, 1)

InSeq(e, s) == \E i \in 1..Len(s) : s[i] = e

RECURSIVE NeighbourLines(_, _, _, _)
NeighbourLines(g, grid_x, grid_y, i) ==
    IF i > Len(EIGHT_DIRECTIONS) THEN g
    ELSE LET color == player_colors[g.current_player]
             nx == grid_x + EIGHT_DIRECTIONS[i][1]
             ny == grid_y + EIGHT_DIRECTIONS[i][2]
             line == << grid_x * CELL_SIZE + OFFSET_X, grid_y * CELL_SIZE + OFFSET_Y,
                        nx * CELL_SIZE + OFFSET_X, ny * CELL_SIZE + OFFSET_Y, color >>
             g1 ==
                 IF InBounds(g, nx, ny) /\ g.grid[ny][nx] = g.current_player
                    /\ ~InSeq(line, g.lines)
                 THEN [g EXCEPT !.lines = Append(@, line)]
                 ELSE g
         IN  NeighbourLines(g1, grid_x, grid_y, i + 1)

_check_neighbors(g, grid_x, grid_y) == NeighbourLines(g, grid_x, grid_y, 1)

----------------------------------------------------------------------------
(* place_dot and switch_player *)

\* place_dot after _execute_move, when the board is not full: segments, then
\* captures, then self-capture, each on the object the step before left.
ResolveMove(g1, grid_x, grid_y) ==
    Only({ [g |-> g4, ret |-> _is_board_full(g4)] :
             g4 \in { _check_self_capture(g3, grid_x, grid_y) :
                 g3 \in { _handle_captures(g2, grid_x, grid_y) :
                     g2 \in { _check_neighbors(g1, grid_x, grid_y) } } } })

\* place_dot on a validated move.
AcceptMove(g, grid_x, grid_y) ==
    Only({ IF _is_board_full(g1) THEN [g |-> g1, ret |-> TRUE]
                                 ELSE ResolveMove(g1, grid_x, grid_y) :
             g1 \in { _execute_move(g, grid_x, grid_y) } })

\* place_dot without the return on a full board.
place_dot_NoEarlyReturn(g, grid_x, grid_y) ==
    IF ~_validate_move(g, grid_x, grid_y) THEN [g |-> g, ret |-> FALSE]
    ELSE ResolveMove(_execute_move(g, grid_x, grid_y), grid_x, grid_y)

\* place_dot clearing last_captured before it validates the move.
place_dot_ClearsLastCaptured(g, grid_x, grid_y) ==
    IF ~_validate_move(g, grid_x, grid_y)
    THEN [g |-> [g EXCEPT !.last_captured = INITIAL_FILLED_CELLS], ret |-> FALSE]
    ELSE AcceptMove(g, grid_x, grid_y)

\* place_dot writing the first player's mark whoever moves.
place_dot_AlwaysFirstPlayer(g, grid_x, grid_y) ==
    IF ~_validate_move(g, grid_x, grid_y) THEN [g |-> g, ret |-> FALSE]
    ELSE Only({ IF _is_board_full(g1) THEN [g |-> g1, ret |-> TRUE]
                                      ELSE ResolveMove(g1, grid_x, grid_y) :
                  g1 \in { [_execute_move(g, grid_x, grid_y) EXCEPT !.grid[grid_y][grid_x] = PLAYER_1] } })

\* [g |-> the object after the call, ret |-> the value returned]
place_dot(g, grid_x, grid_y) ==
    IF ~_validate_move(g, grid_x, grid_y) THEN [g |-> g, ret |-> FALSE]
    ELSE AcceptMove(g, grid_x, grid_y)

switch_player(g) ==
    [g EXCEPT !.current_player = IF @ = PLAYER_1 THEN PLAYER_2 ELSE PLAYER_1]

----------------------------------------------------------------------------
(* The AI strategies *)

\* All cells in row-major order (y outer, x inner), as the nested range loops visit them.
RowMajor(g) == [k \in 1..(g.w + 1) * (g.h + 1) |-> << (k - 1) % (g.w + 1), (k - 1) \div (g.w + 1) >>]

\* What a call of an AI strategy can leave behind: the object and the value it
\* returns (move = <<>> stands for None).
AiResult(g, move) == [g |-> g, move |-> move]

\* _execute_ai_move reporting the cell without placing on it.
_execute_ai_move_ReportsOnly(g, x, y) == AiResult(g, <<x, y>>)

\* if self.place_dot(x, y): return None; return x, y
_execute_ai_move(g, x, y) ==
    Only({ AiResult(r.g, IF r.ret THEN <<>> ELSE <<x, y>>) : r \in {place_dot(g, x, y)} })

\* The loop of make_ai_move_random running while attempts <= MAX_ATTEMPTS.
RandomLoop_OneMoreAttempt(g) ==
    LET valid == {d \in (0..g.w) \X (0..g.h) : is_valid_move(g, d[1], d[2])}
        reached == {a \in 0..(MAX_ATTEMPTS + 1) :
                       a = 0 \/ \E d \in (0..g.w) \X (0..g.h) : ~is_valid_move(g, d[1], d[2])}
    IN  { [cell |-> c, samples |-> a + 1] : c \in valid, a \in {n \in reached : n <= MAX_ATTEMPTS} }
        \cup { [cell |-> <<>>, samples |-> a] : a \in {n \in reached : ~(n <= MAX_ATTEMPTS)} }

\* The loop of make_ai_move_random: the cell on which it calls place_dot (<<>>
\* when it gives up) and the number of cells it has drawn by then.  reached
\* holds the values of attempts at which the loop test can be made: 0, and
\* every later one when some cell is occupied, since only a draw on an
\* occupied cell goes round again, leaving the object as it is.
RandomLoop(g) ==
    LET valid == {d \in (0..g.w) \X (0..g.h) : is_valid_move(g, d[1], d[2])}
        reached == {a \in 0..MAX_ATTEMPTS :
                       a = 0 \/ \E d \in (0..g.w) \X (0..g.h) : ~is_valid_move(g, d[1], d[2])}
    IN  { [cell |-> c, samples |-> a + 1] : c \in valid, a \in {n \in reached : n < MAX_ATTEMPTS} }
        \cup { [cell |-> <<>>, samples |-> a] : a \in {n \in reached : ~(n < MAX_ATTEMPTS)} }

\* make_ai_move_random without the is_valid_move test: it reports the cell drawn
\* unless place_dot returned True.
make_ai_move_random_NoValidity(g) ==
    { _execute_ai_move(g, c[1], c[2]) : c \in (0..g.w) \X (0..g.h) }

\* random.randint draws any in-bounds cell.  A draw on an empty cell places there
\* and ends the loop; the loop can also run out of attempts, which needs
\* MAX_ATTEMPTS draws on occupied cells, so at least one occupied cell.
make_ai_move_random(g) ==
    { _execute_ai_move(g, x, y) :
        <<x, y>> \in {c \in (0..g.w) \X (0..g.h) : MAX_ATTEMPTS > 0 /\ is_valid_move(g, c[1], c[2])} }
    \cup
    (IF MAX_ATTEMPTS = 0 \/ \E c \in (0..g.w) \X (0..g.h) : ~is_valid_move(g, c[1], c[2])
     THEN {AiResult(g, <<>>)} ELSE {})

\* _would_capture_player answering for any adjacent mark of the first player,
\* enclosed or not.
_would_capture_player_AnyNeighbour(g, x, y) ==
    \E i \in 1..Len(FOUR_DIRECTIONS) :
        LET nx == x + FOUR_DIRECTIONS[i][1]
            ny == y + FOUR_DIRECTIONS[i][2]
        IN  /\ InBounds(g, nx, ny)
            /\ g.grid[ny][nx] = PLAYER_1

_would_capture_player(g, x, y) ==
    \E i \in 1..Len(FOUR_DIRECTIONS) :
        LET nx == x + FOUR_DIRECTIONS[i][1]
            ny == y + FOUR_DIRECTIONS[i][2]
        IN  /\ InBounds(g, nx, ny)
            /\ g.grid[ny][nx] = PLAYER_1
            /\ _get_group_with_status(g, nx, ny, PLAYER_1).is_surrounded

\* The first cell in row-major order that is a valid move and would capture;
\* <<>> stands for None.
_find_capture_move(g) ==
    Only({ IF hits = {} THEN <<>>
           ELSE RowMajor(g)[CHOOSE k \in hits : \A j \in hits : k <= j] :
             hits \in { {k \in 1..Len(RowMajor(g)) :
                            is_valid_move(g, RowMajor(g)[k][1], RowMajor(g)[k][2])
                            /\ _would_capture_player(g, RowMajor(g)[k][1], RowMajor(g)[k][2])} } })

_get_player_dots(g) ==
    LET isDot(c) == g.grid[c[2]][c[1]] = PLAYER_1
    IN  SelectSeq(RowMajor(g), isDot)

\* The valid moves around one dot, in EIGHT_DIRECTIONS order.
AroundDot(g, dot) ==
    LET around == [i \in 1..Len(EIGHT_DIRECTIONS) |->
                      << dot[1] + EIGHT_DIRECTIONS[i][1], dot[2] + EIGHT_DIRECTIONS[i][2] >>]
        ok(c) == InBounds(g, c[1], c[2]) /\ is_valid_move(g, c[1], c[2])
    IN  SelectSeq(around, ok)

RECURSIVE _get_candidate_moves(_, _)
_get_candidate_moves(g, player_dots) ==
    IF player_dots = <<>> THEN <<>>
    ELSE AroundDot(g, Head(player_dots)) \o _get_candidate_moves(g, Tail(player_dots))

\* _calculate_move_score with the two weights exchanged.
_calculate_move_score_OwnWeighsMore(g, x, y) ==
    LET owner(i) ==
            LET nx == x + EIGHT_DIRECTIONS[i][1]
                ny == y + EIGHT_DIRECTIONS[i][2]
            IN  IF InBounds(g, nx, ny) THEN g.grid[ny][nx] ELSE EMPTY_CELL
    IN  Cardinality({i \in 1..Len(EIGHT_DIRECTIONS) : owner(i) = PLAYER_1})
        + 3 * Cardinality({i \in 1..Len(EIGHT_DIRECTIONS) : owner(i) = PLAYER_2})

_calculate_move_score(g, x, y) ==
    LET owner(i) ==
            LET nx == x + EIGHT_DIRECTIONS[i][1]
                ny == y + EIGHT_DIRECTIONS[i][2]
            IN  IF InBounds(g, nx, ny) THEN g.grid[ny][nx] ELSE EMPTY_CELL
    IN  3 * Cardinality({i \in 1..Len(EIGHT_DIRECTIONS) : owner(i) = PLAYER_1})
        + Cardinality({i \in 1..Len(EIGHT_DIRECTIONS) : owner(i) = PLAYER_2})

\* The loop of _select_best_move from candidate i on: best_score is the score of
\* the current best move and bests the moves best_move can be at this point,
\* over all outcomes of the coin flips made so far.
RECURSIVE SelectLoop(_, _, _, _, _)
SelectLoop(g, candidates, i, best_score, bests) ==
    IF i > Len(candidates) THEN bests
    ELSE LET c == candidates[i]
             score == _calculate_move_score(g, c[1], c[2])
         IN  IF score > best_score THEN SelectLoop(g, candidates, i + 1, score, {c})
             ELSE IF score = best_score
                  THEN SelectLoop(g, candidates, i + 1, best_score, bests \cup {c})
                  ELSE SelectLoop(g, candidates, i + 1, best_score, bests)

\* The set of moves _select_best_move can return for a non-empty candidate list
\* (its caller never passes an empty one).
_select_best_move(g, candidates) ==
    SelectLoop(g, candidates, 1, -1, {candidates[1]})

\* The set of moves _find_strategic_move can return; {} stands for None.
_find_strategic_move(g) ==
    UNION { IF player_dots = <<>> THEN {}
            ELSE UNION { IF candidate_moves = <<>> THEN {}
                         ELSE _select_best_move(g, candidate_moves) :
                           candidate_moves \in {_get_candidate_moves(g, player_dots)} } :
              player_dots \in {_get_player_dots(g)} }

\* _select_best_move as a call on the object: [g |-> the object after,
\* move |-> the move returned].  With no candidates it calls
\* make_ai_move_random, which places a mark, and returns its move or (0, 0).
SelectBestMoveCall(g, candidates) ==
    IF candidates = <<>>
    THEN { AiResult(r.g, IF r.move = <<>> THEN <<0, 0>> ELSE r.move) : r \in make_ai_move_random(g) }
    ELSE { AiResult(g, m) : m \in _select_best_move(g, candidates) }

\* _find_strategic_move passing an empty candidate list on to _select_best_move.
FindStrategicMoveCall_NoCandidateGuard(g) ==
    UNION { IF player_dots = <<>> THEN {AiResult(g, <<>>)}
            ELSE SelectBestMoveCall(g, _get_candidate_moves(g, player_dots)) :
              player_dots \in {_get_player_dots(g)} }

\* _find_strategic_move as a call on the object.
FindStrategicMoveCall(g) ==
    UNION { IF player_dots = <<>> THEN {AiResult(g, <<>>)}
            ELSE UNION { IF candidate_moves = <<>> THEN {AiResult(g, <<>>)}
                         ELSE SelectBestMoveCall(g, candidate_moves) :
                           candidate_moves \in {_get_candidate_moves(g, player_dots)} } :
              player_dots \in {_get_player_dots(g)} }

\* make_ai_move_smart when no capture move was found.
SmartWithoutCapture(g) ==
    UNION { IF strategic_move # {}
            THEN {_execute_ai_move(g, m[1], m[2]) : m \in strategic_move}
            ELSE make_ai_move_random(g) :
              strategic_move \in {_find_strategic_move(g)} }

make_ai_move_smart(g) ==
    UNION { IF capture_move # <<>>
            THEN {_execute_ai_move(g, capture_move[1], capture_move[2])}
            ELSE SmartWithoutCapture(g) :
              capture_move \in {_find_capture_move(g)} }

----------------------------------------------------------------------------
(* The leaderboard (leaderboard.py) *)

_LEADERBOARD_SIZE == 3
_DEFAULT_NAME == "None"
_DEFAULT_SCORE == 0

LeaderboardEntry(place, name, score) == [place |-> place, name |-> name, score |-> score]

\* leaderboard.json before anything was saved.
AbsentFile == [exists |-> FALSE, data |-> <<>>]

load_leaderboard(file) ==
    IF ~file.exists
    THEN [i \in 1.._LEADERBOARD_SIZE |-> LeaderboardEntry(i, _DEFAULT_NAME, _DEFAULT_SCORE)]
    ELSE file.data

save_leaderboard(leaderboard) == [exists |-> TRUE, data |-> leaderboard]

\* The sort key with a placeholder record ranked by its score.
SortKey_SentinelByScore(x) == x.score

\* key=lambda x: x.score if x.name != _DEFAULT_NAME else -1
SortKey(x) == IF x.name # _DEFAULT_NAME THEN x.score ELSE -1

\* x put into a list sorted by descending key, behind every record whose key is
\* not smaller: list.sort is stable, also with reverse=True.
InsertByKey(sorted, x) ==
    LET k == Cardinality({i \in 1..Len(sorted) : SortKey(sorted[i]) >= SortKey(x)})
    IN  SubSeq(sorted, 1, k) \o <<x>> \o SubSeq(sorted, k + 1, Len(sorted))

\* _leaderboard.sort(key=..., reverse=True)
RECURSIVE SortByKey(_)
SortByKey(leaderboard) ==
    IF leaderboard = <<>> THEN <<>>
    ELSE InsertByKey(SortByKey(SubSeq(leaderboard, 1, Len(leaderboard) - 1)),
                     leaderboard[Len(leaderboard)])

\* The slice kept one record too long.
Truncate_KeepsFour(leaderboard) ==
    SubSeq(leaderboard, 1, IF Len(leaderboard) < _LEADERBOARD_SIZE + 1
                           THEN Len(leaderboard) ELSE _LEADERBOARD_SIZE + 1)

\* _leaderboard[:_LEADERBOARD_SIZE]
Truncate(leaderboard) ==
    SubSeq(leaderboard, 1, IF Len(leaderboard) < _LEADERBOARD_SIZE
                           THEN Len(leaderboard) ELSE _LEADERBOARD_SIZE)

\* for i, entry in enumerate(_leaderboard, 1): entry.place = i
Replace(leaderboard) == [i \in 1..Len(leaderboard) |-> [leaderboard[i] EXCEPT !.place = i]]

\* The rejection test with < for <=.
Rejects_StrictlyLower(leaderboard, new_score) ==
    /\ new_score < leaderboard[Len(leaderboard)].score
    /\ leaderboard[Len(leaderboard)].name # _DEFAULT_NAME

\* new_score <= _leaderboard[-1].score and _leaderboard[-1].name != _DEFAULT_NAME
Rejects(leaderboard, new_score) ==
    /\ new_score <= leaderboard[Len(leaderboard)].score
    /\ leaderboard[Len(leaderboard)].name # _DEFAULT_NAME

\* [file |-> leaderboard.json after the call, ret |-> the value returned,
\* raised |-> whether the call raised instead of returning].  On an empty list
\* _leaderboard[-1] raises IndexError before anything is written.
update_leaderboard(file, new_name, new_score) ==
    Only({ IF _leaderboard = <<>>
           THEN [file |-> file, ret |-> FALSE, raised |-> TRUE]
           ELSE IF Rejects(_leaderboard, new_score)
           THEN [file |-> file, ret |-> FALSE, raised |-> FALSE]
           ELSE [file |-> save_leaderboard(
                              Replace(Truncate(SortByKey(
                                  Append(_leaderboard, LeaderboardEntry(0, new_name, new_score)))))),
                 ret |-> TRUE, raised |-> FALSE] :
             _leaderboard \in {load_leaderboard(file)} })

\* No update_leaderboard call has been made.
NoLbCall ==
    [op |-> "none", new_name |-> "", new_score |-> 0, ret |-> FALSE, raised |-> FALSE,
     before |-> <<>>, submitted |-> <<>>]

\* The leaderboard as a match of GameLogic leaves it: untouched.
LbIdle ==
    /\ _leaderboard_file = AbsentFile
    /\ lb_call = NoLbCall

----------------------------------------------------------------------------
(* DotsGame (dots_game.py): the fields a handler reads and writes *)

\* A handler of DotsGame as an observer sees it: its name, whether a game
\* object existed (ran), the grid cell a click was resolved to (-1 otherwise),
\* the cell a mark appeared on (<<>> if none did), the value of game_ended the
\* handler read, whether it called _end_game, whether it scheduled an AI turn,
\* and the move the AI strategy returned (<<>> standing for None).
Event(op, ran, x, y, placed, game_ended, end_game, scheduled, move) ==
    [op |-> op, ran |-> ran, x |-> x, y |-> y, placed |-> placed, game_ended |-> game_ended,
     end_game |-> end_game, scheduled |-> scheduled, move |-> move, message |-> <<>>]

\* if self._game_logic.last_captured > 0: self._show_capture_message(player, last_captured)
\* message is <<player, count>> when the message was shown.
_show_capture_message(ev, player, g) ==
    IF g.last_captured > 0 THEN [ev EXCEPT !.message = <<player, g.last_captured>>] ELSE ev

\* No handler has run.
NoEvent == Event("none", FALSE, -1, -1, <<>>, FALSE, FALSE, FALSE, <<>>)

\* DotsGame as a match of GameLogic alone sees it: a game object exists and no
\* handler runs.
UiIdle ==
    /\ _mode = "PVP"
    /\ _game_logic = TRUE
    /\ _root_after = 0
    /\ name_window = <<>>
    /\ game_over_window = 0
    /\ messagebox = <<>>
    /\ event = NoEvent

----------------------------------------------------------------------------
(* The state machine *)

\* The GameLogic object the variables hold.
Obj ==
    [ w             |-> _grid_width,
      h             |-> _grid_height,
      scores        |-> scores,
      grid          |-> _grid,
      current_player |-> current_player,
      lines         |-> lines,
      last_captured |-> last_captured,
      total_cells   |-> (_grid_width + 1) * (_grid_height + 1),
      filled_cells  |-> _filled_cells,
      game_ui       |-> <<>> ]

Store(g) ==
    /\ _grid_width' = g.w
    /\ _grid_height' = g.h
    /\ scores' = g.scores
    /\ _grid' = g.grid
    /\ current_player' = g.current_player
    /\ lines' = g.lines
    /\ last_captured' = g.last_captured
    /\ _filled_cells' = g.filled_cells
    /\ _game_ui' = g.game_ui

\* A method call as the caller sees it: its name and arguments, the value it
\* returned (ret for place_dot, move for the AI strategies, <<>> standing for
\* None) and the cell a mark appeared on during the call (<<>> if none did).
Call(op, x, y, ret, move, placed) ==
    [op |-> op, x |-> x, y |-> y, ret |-> ret, move |-> move, placed |-> placed]

\* The cell on which the object after holds a mark that the object before did not.
Placed(before, after) ==
    LET new == {c \in (0..before.w) \X (0..before.h) :
                   before.grid[c[2]][c[1]] = EMPTY_CELL /\ after.grid[c[2]][c[1]] # EMPTY_CELL}
    IN  IF new = {} THEN <<>> ELSE CHOOSE c \in new : TRUE

\* The positions the openings build, one row of marks per y (0 = never placed
\* by the opening).  free lists the marked cells the opening leaves out, in
\* order of priority: the first MaxFree of them stay empty.
Positions ==
    << \* 2 x 2, the new game itself
       [ w |-> 1, h |-> 1,
         rows |-> << <<0, 0>>,
                     <<0, 0>> >>,
         free |-> <<>> ],
       \* 3 x 3: the second player's inner mark, the last side of it open
       [ w |-> 2, h |-> 2,
         rows |-> << <<2, 1, 2>>,
                     <<1, 2, 1>>,
                     <<1, 1, 2>> >>,
         free |-> << <<1, 2>>, <<0, 0>>, <<1, 1>> >> ],
       \* 3 x 3: the inner cell empty, the first player's marks on its four sides
       [ w |-> 2, h |-> 2,
         rows |-> << <<2, 1, 2>>,
                     <<1, 2, 1>>,
                     <<1, 1, 2>> >>,
         free |-> << <<1, 1>>, <<0, 0>>, <<1, 2>> >> ],
       \* 4 x 3: two inner marks of the second player, one side open
       [ w |-> 3, h |-> 2,
         rows |-> << <<2, 1, 1, 2>>,
                     <<1, 2, 2, 1>>,
                     <<2, 1, 1, 1>> >>,
         free |-> << <<2, 2>>, <<0, 0>>, <<2, 1>> >> ],
       \* 4 x 3: one inner mark of the second player, the other inner cell
       \* empty, all sides closed
       [ w |-> 3, h |-> 2,
         rows |-> << <<2, 1, 1, 2>>,
                     <<1, 2, 2, 1>>,
                     <<2, 1, 1, 1>> >>,
         free |-> << <<2, 1>>, <<0, 0>>, <<2, 2>> >> ],
       \* 4 x 3: one inner mark of the second player, the other inner cell
       \* empty, one side open
       [ w |-> 3, h |-> 2,
         rows |-> << <<2, 1, 1, 2>>,
                     <<1, 2, 2, 1>>,
                     <<2, 1, 1, 1>> >>,
         free |-> << <<1, 1>>, <<2, 2>>, <<0, 0>> >> ],
       \* 5 x 3: two inner marks of the second player with an empty inner cell
       \* between them
       [ w |-> 4, h |-> 2,
         rows |-> << <<2, 1, 1, 1, 2>>,
                     <<1, 2, 2, 2, 1>>,
                     <<1, 1, 1, 1, 1>> >>,
         free |-> << <<2, 1>>, <<0, 2>>, <<2, 2>> >> ],
       \* 4 x 3: one inner mark of the first player, the other inner cell empty,
       \* the second player's marks around them, the top side open
       [ w |-> 3, h |-> 2,
         rows |-> << <<2, 2, 2, 2>>,
                     <<2, 1, 2, 2>>,
                     <<2, 2, 2, 2>> >>,
         free |-> << <<2, 0>>, <<2, 1>>, <<0, 0>> >> ],
       \* 5 x 3: one inner mark of the first player with its last side open, and
       \* an empty inner cell next to three more marks of the first player
       [ w |-> 4, h |-> 2,
         rows |-> << <<2, 2, 2, 2, 1>>,
                     <<2, 1, 2, 2, 1>>,
                     <<2, 2, 2, 2, 1>> >>,
         free |-> << <<2, 1>>, <<3, 1>>, <<0, 0>> >> ],
       \* 4 x 4: three inner marks of the first player in an L, the fourth
       \* inner cell empty next to two of them, the second player's marks around
       [ w |-> 3, h |-> 3,
         rows |-> << <<2, 2, 2, 2>>,
                     <<2, 1, 1, 2>>,
                     <<2, 1, 2, 2>>,
                     <<2, 2, 2, 2>> >>,
         free |-> << <<2, 2>>, <<3, 3>>, <<0, 0>> >> ],
       \* 3 x 3: three empty corners, two of them next to two marks of the
       \* first player and one next to one; no group can be enclosed
       [ w |-> 2, h |-> 2,
         rows |-> << <<0, 1, 0>>,
                     <<1, 2, 1>>,
                     <<2, 2, 0>> >>,
         free |-> <<>> ] >>

\* The cells an opening leaves empty although its position marks them.
LeftFree(p) == {p.free[i] : i \in 1..(IF Len(p.free) < MaxFree THEN Len(p.free) ELSE MaxFree)}

\* The marks the opening of position p places, in row-major order: <<player, x, y>>.
OpeningMoves(p) ==
    LET cells == [k \in 1..(p.w + 1) * (p.h + 1) |->
                     << (k - 1) % (p.w + 1), (k - 1) \div (p.w + 1) >>]
        placed(c) == p.rows[c[2] + 1][c[1] + 1] # 0 /\ c \notin LeftFree(p)
        kept == SelectSeq(cells, placed)
    IN  [k \in 1..Len(kept) |-> << p.rows[kept[k][2] + 1][kept[k][1] + 1], kept[k][1], kept[k][2] >>]

\* A new game whose caller will play the opening of position p.
InitAt(p) ==
        LET g == GameLogicInit(p.w, p.h)
        IN  /\ _grid_width = g.w
            /\ _grid_height = g.h
            /\ scores = g.scores
            /\ _grid = g.grid
            /\ current_player = g.current_player
            /\ lines = g.lines
            /\ last_captured = g.last_captured
            /\ _filled_cells = g.filled_cells
            /\ _game_ui = g.game_ui
            /\ call = Call("__init__", p.w, p.h, FALSE, <<>>, <<>>)
            /\ opening = OpeningMoves(p)
            /\ UiIdle
            /\ LbIdle

Init == \E i \in 1..Len(Positions) : InitAt(Positions[i])

\* One step of the opening: switch_player if the next mark is not the current
\* player's, else place_dot of that mark.
OpeningStep ==
    /\ opening # <<>>
    /\ UNCHANGED <<uiVars, lbVars>>
    /\ LET m == Head(opening)
       IN  IF current_player # m[1]
           THEN /\ Store(switch_player(Obj))
                /\ call' = Call("switch_player", -1, -1, FALSE, <<>>, <<>>)
                /\ UNCHANGED opening
           ELSE \E r \in {place_dot(Obj, m[2], m[3])} :
                    /\ Store(r.g)
                    /\ call' = Call("place_dot", m[2], m[3], r.ret, <<>>, Placed(Obj, r.g))
                    /\ opening' = Tail(opening)

PlaceDot ==
    /\ opening = <<>>
    /\ UNCHANGED opening
    /\ UNCHANGED <<uiVars, lbVars>>
    /\ \E x \in (0 - Margin)..(_grid_width + Margin), y \in (0 - Margin)..(_grid_height + Margin) :
          \E r \in {place_dot(Obj, x, y)} :
              /\ Store(r.g)
              /\ call' = Call("place_dot", x, y, r.ret, <<>>, Placed(Obj, r.g))

SwitchPlayer ==
    /\ opening = <<>>
    /\ UNCHANGED opening
    /\ UNCHANGED <<uiVars, lbVars>>
    /\ Store(switch_player(Obj))
    /\ call' = Call("switch_player", -1, -1, FALSE, <<>>, <<>>)

MakeAiMoveRandom ==
    /\ opening = <<>>
    /\ UNCHANGED opening
    /\ UNCHANGED <<uiVars, lbVars>>
    /\ \E g \in {Obj} : \E r \in make_ai_move_random(g) :
          /\ Store(r.g)
          /\ call' = Call("make_ai_move_random", -1, -1, FALSE, r.move, Placed(Obj, r.g))

MakeAiMoveSmart ==
    /\ opening = <<>>
    /\ UNCHANGED opening
    /\ UNCHANGED <<uiVars, lbVars>>
    /\ \E g \in {Obj} : \E r \in make_ai_move_smart(g) :
          /\ Store(r.g)
          /\ call' = Call("make_ai_move_smart", -1, -1, FALSE, r.move, Placed(Obj, r.g))

Next == OpeningStep \/ PlaceDot \/ SwitchPlayer \/ MakeAiMoveRandom \/ MakeAiMoveSmart

Spec == Init /\ [][Next]_vars

----------------------------------------------------------------------------
(* The leaderboard on its own: update_leaderboard called with any name and score *)

\* update_leaderboard is called with scores in -MaxScore..MaxScore.
MaxScore == 2

\* The names update_leaderboard is called with: two players and the
\* placeholder name itself.
Names == {"Alice", "Bob", _DEFAULT_NAME}

LeaderboardInit ==
    /\ _grid_width = 1
    /\ _grid_height = 1
    /\ scores = GameLogicInit(1, 1).scores
    /\ _grid = GameLogicInit(1, 1).grid
    /\ current_player = PLAYER_1
    /\ lines = <<>>
    /\ last_captured = INITIAL_FILLED_CELLS
    /\ _filled_cells = INITIAL_FILLED_CELLS
    /\ _game_ui = <<>>
    /\ call = Call("__init__", 1, 1, FALSE, <<>>, <<>>)
    /\ opening = <<>>
    /\ UiIdle
    /\ LbIdle

UpdateLeaderboard ==
    /\ UNCHANGED <<gameVars, _game_ui, call, opening, uiVars>>
    /\ \E new_name \in Names, new_score \in (0 - MaxScore)..MaxScore :
          \E r \in {update_leaderboard(_leaderboard_file, new_name, new_score)} :
              /\ _leaderboard_file' = r.file
              /\ lb_call' = [op |-> "update_leaderboard", new_name |-> new_name,
                             new_score |-> new_score, ret |-> r.ret, raised |-> r.raised,
                             before |-> load_leaderboard(_leaderboard_file),
                             submitted |-> <<>>]

LeaderboardNext == UpdateLeaderboard

SpecLeaderboard == LeaderboardInit /\ [][LeaderboardNext]_vars

----------------------------------------------------------------------------
(* The leaderboard as a store: save_leaderboard is also called directly,   *)
(* with a list of any length                                               *)

\* save_leaderboard is given lists of at most MaxSaved records.
MaxSaved == 3

\* The lists save_leaderboard is given: records of a player and of the
\* placeholder name, with the lowest and the highest score, numbered in order.
SavedLists ==
    UNION { { [i \in 1..n |-> LeaderboardEntry(i, f[i][1], f[i][2])] :
                f \in [1..n -> {"Alice", _DEFAULT_NAME} \X {0, MaxScore}] } :
            n \in 0..MaxSaved }

\* save_leaderboard called on its own: the file holds the list given.
SaveLeaderboard ==
    /\ UNCHANGED <<gameVars, _game_ui, call, opening, uiVars>>
    /\ \E leaderboard \in SavedLists :
          /\ _leaderboard_file' = save_leaderboard(leaderboard)
          /\ lb_call' = [NoLbCall EXCEPT !.op = "save_leaderboard"]

StoreNext == UpdateLeaderboard \/ SaveLeaderboard

SpecStore == LeaderboardInit /\ [][StoreNext]_vars

----------------------------------------------------------------------------
(* The leaderboard fed with results of players: every name is a player's, no *)
(* score is negative, and the scores submitted so far are remembered        *)

\* At most MaxCalls results are submitted.
MaxCalls == 4

\* The names of players.
PlayerNames == Names \ {_DEFAULT_NAME}

SubmitScore ==
    /\ Len(lb_call.submitted) < MaxCalls
    /\ UNCHANGED <<gameVars, _game_ui, call, opening, uiVars>>
    /\ \E new_name \in PlayerNames, new_score \in 0..MaxScore :
          \E r \in {update_leaderboard(_leaderboard_file, new_name, new_score)} :
              /\ _leaderboard_file' = r.file
              /\ lb_call' = [op |-> "update_leaderboard", new_name |-> new_name,
                             new_score |-> new_score, ret |-> r.ret, raised |-> r.raised,
                             before |-> load_leaderboard(_leaderboard_file),
                             submitted |-> Append(lb_call.submitted, new_score)]

SubmissionsNext == SubmitScore

SpecSubmissions == LeaderboardInit /\ [][SubmissionsNext]_vars

----------------------------------------------------------------------------
(* The scenario of three marks on the 6 x 6 board *)

\* After the opening of the scenario at most ScenarioMoves more marks are placed.
ScenarioMoves == 2

\* The marks the first player holds when the scenario starts.
ScenarioMarks == {<<1, 1>>, <<1, 2>>, <<2, 1>>}

\* width = 5, height = 5, the first player's marks on ScenarioMarks.
ScenarioPosition ==
    [ w |-> 5, h |-> 5,
      rows |-> [r \in 1..6 |-> [k \in 1..6 |->
                   IF <<k - 1, r - 1>> \in ScenarioMarks THEN PLAYER_1 ELSE EMPTY_CELL]],
      free |-> <<>> ]

\* The cells the scenario's calls are made on: those within one step, in any
\* of the eight directions, of a scenario mark or of (2, 2).
ScenarioCells ==
    {c \in (0..ScenarioPosition.w) \X (0..ScenarioPosition.h) :
        \E m \in ScenarioMarks \cup {<<2, 2>>} :
            /\ c[1] - m[1] \in {-1, 0, 1}
            /\ c[2] - m[2] \in {-1, 0, 1}}

ScenarioInit == InitAt(ScenarioPosition)

ScenarioPlaceDot ==
    /\ opening = <<>>
    /\ UNCHANGED opening
    /\ UNCHANGED <<uiVars, lbVars>>
    /\ _filled_cells < Cardinality(ScenarioMarks) + ScenarioMoves
    /\ \E c \in ScenarioCells :
          \E r \in {place_dot(Obj, c[1], c[2])} :
              /\ Store(r.g)
              /\ call' = Call("place_dot", c[1], c[2], r.ret, <<>>, Placed(Obj, r.g))

ScenarioNext == OpeningStep \/ SwitchPlayer \/ ScenarioPlaceDot

SpecScenario == ScenarioInit /\ [][ScenarioNext]_vars

----------------------------------------------------------------------------
(* DotsGame (dots_game.py): the handlers, as operators over the game object g *)
(* and the record u of DotsGame's own fields                                  *)

\* constants.py: the score keys of the two teams.
BLUE_TEAM == PLAYER_1
RED_TEAM == PLAYER_2

\* Boards of at most MaxCells cells are played through the window.
MaxCells == 4

\* At most MaxPending scheduled AI turns wait at a time.
MaxPending == 2

\* At most MaxWindows result windows are opened.
MaxWindows == 2

Modes == {"PVP", "PVAIR", "PVAIS"}

\* The fields of DotsGame the variables hold.
Ui ==
    [ mode             |-> _mode,
      game_logic       |-> _game_logic,
      root_after       |-> _root_after,
      name_window      |-> name_window,
      game_over_window |-> game_over_window,
      messagebox       |-> messagebox ]

StoreUi(u) ==
    /\ _mode' = u.mode
    /\ _game_logic' = u.game_logic
    /\ _root_after' = u.root_after
    /\ name_window' = u.name_window
    /\ game_over_window' = u.game_over_window
    /\ messagebox' = u.messagebox

\* What a handler leaves behind: the game object, DotsGame's fields, the event.
Handled(g, u, ev) == [g |-> g, u |-> u, ev |-> ev]

\* determine_result with a tie going to blue.
determine_result_TieIsBlue(blue_score, red_score) ==
    IF blue_score >= red_score THEN "BLUE_WIN" ELSE "RED_WIN"

determine_result(blue_score, red_score) ==
    IF blue_score > red_score THEN "BLUE_WIN"
    ELSE IF red_score > blue_score THEN "RED_WIN"
    ELSE "DRAW"

\* The result window; the game object is dropped.
_show_game_over_message(u) ==
    [u EXCEPT !.game_over_window = @ + 1, !.game_logic = FALSE]

\* The dialog asking the winner's name stays open until it is saved.
_show_winner_dialog(u, result, winning_score) ==
    [u EXCEPT !.name_window = Append(@, [result |-> result, winning_score |-> winning_score])]

_end_game(g, u) ==
    IF ~u.game_logic THEN u
    ELSE LET blue_score == g.scores[BLUE_TEAM]
             red_score == g.scores[RED_TEAM]
             result == determine_result(blue_score, red_score)
             winning_score == IF result = "BLUE_WIN" THEN blue_score
                              ELSE IF result = "RED_WIN" THEN red_score
                              ELSE IF blue_score > red_score THEN blue_score ELSE red_score
         IN  IF result # "DRAW" THEN _show_winner_dialog(u, result, winning_score)
             ELSE _show_game_over_message(u)

\* The grid line nearest to a pixel coordinate, clamped to the board.
GridCoord(pixel, offset, limit) ==
    LET rest == (pixel - offset) % CELL_SIZE
        near == ((pixel - offset) \div CELL_SIZE) + (IF 2 * rest >= CELL_SIZE THEN 1 ELSE 0)
        low == IF near < limit THEN near ELSE limit
    IN  IF low > 0 THEN low ELSE 0

\* _on_canvas_click with the rejected click switching the player as well.
_on_canvas_click_SwitchesOnRejected(g, u, event_x, event_y) ==
    IF ~u.game_logic
    THEN Handled(g, u, Event("_on_canvas_click", FALSE, -1, -1, <<>>, FALSE, FALSE, FALSE, <<>>))
    ELSE LET grid_x == GridCoord(event_x, OFFSET_X, g.w)
             grid_y == GridCoord(event_y, OFFSET_Y, g.h)
         IN  Only({ IF r.ret
                    THEN Handled(r.g, _end_game(r.g, u),
                                 Event("_on_canvas_click", TRUE, grid_x, grid_y, Placed(g, r.g),
                                       TRUE, TRUE, FALSE, <<>>))
                    ELSE Handled(switch_player(r.g), u,
                                 Event("_on_canvas_click", TRUE, grid_x, grid_y, Placed(g, r.g),
                                       FALSE, FALSE, FALSE, <<>>))
                    : r \in {place_dot(g, grid_x, grid_y)} })

\* _on_canvas_click ignoring the value place_dot returns: the match goes on
\* after the click that fills the board.
_on_canvas_click_IgnoresGameEnded(g, u, event_x, event_y) ==
    IF ~u.game_logic
    THEN Handled(g, u, Event("_on_canvas_click", FALSE, -1, -1, <<>>, FALSE, FALSE, FALSE, <<>>))
    ELSE LET grid_x == GridCoord(event_x, OFFSET_X, g.w)
             grid_y == GridCoord(event_y, OFFSET_Y, g.h)
         IN  IF ~is_valid_move(g, grid_x, grid_y)
             THEN Handled(g, u, Event("_on_canvas_click", TRUE, grid_x, grid_y, <<>>,
                                      FALSE, FALSE, FALSE, <<>>))
             ELSE Only({ Handled(switch_player(r.g), u,
                                 Event("_on_canvas_click", TRUE, grid_x, grid_y,
                                       Placed(g, r.g), r.ret, FALSE, FALSE, <<>>))
                         : r \in {place_dot(g, grid_x, grid_y)} })

_on_canvas_click(g, u, event_x, event_y) ==
    IF ~u.game_logic
    THEN Handled(g, u, Event("_on_canvas_click", FALSE, -1, -1, <<>>, FALSE, FALSE, FALSE, <<>>))
    ELSE LET grid_x == GridCoord(event_x, OFFSET_X, g.w)
             grid_y == GridCoord(event_y, OFFSET_Y, g.h)
         IN  IF ~is_valid_move(g, grid_x, grid_y)
             THEN Handled(g, u, Event("_on_canvas_click", TRUE, grid_x, grid_y, <<>>,
                                      FALSE, FALSE, FALSE, <<>>))
             ELSE Only({ IF r.ret
                         THEN Handled(r.g, _end_game(r.g, u),
                                      _show_capture_message(
                                          Event("_on_canvas_click", TRUE, grid_x, grid_y,
                                                Placed(g, r.g), TRUE, TRUE, FALSE, <<>>),
                                          g.current_player, r.g))
                         ELSE Only({ Handled(g2,
                                             IF u.mode # "PVP" /\ g2.current_player = 2
                                             THEN [u EXCEPT !.root_after = @ + 1] ELSE u,
                                             _show_capture_message(
                                                 Event("_on_canvas_click", TRUE, grid_x, grid_y,
                                                       Placed(g, r.g), FALSE, FALSE,
                                                       u.mode # "PVP" /\ g2.current_player = 2, <<>>),
                                                 g.current_player, r.g))
                                     : g2 \in {switch_player(r.g)} })
                         : r \in {place_dot(g, grid_x, grid_y)} })

\* _make_ai_move after the strategy has returned s: the handler places the
\* returned move again, and ends the game or switches the player.
AfterStrategy(g, u, s) ==
    IF s.move = <<>>
    THEN Handled(s.g, u, Event("_make_ai_move", TRUE, -1, -1, Placed(g, s.g),
                               FALSE, FALSE, FALSE, <<>>))
    ELSE Only({ IF r.ret
                THEN Handled(r.g, _end_game(r.g, u),
                             _show_capture_message(
                                 Event("_make_ai_move", TRUE, -1, -1, Placed(g, r.g),
                                       TRUE, TRUE, FALSE, s.move),
                                 PLAYER_2, r.g))
                ELSE Handled(switch_player(r.g), u,
                             _show_capture_message(
                                 Event("_make_ai_move", TRUE, -1, -1, Placed(g, r.g),
                                       FALSE, FALSE, FALSE, s.move),
                                 PLAYER_2, r.g))
                : r \in {place_dot(s.g, s.move[1], s.move[2])} })

\* The outcomes of _make_ai_move, one for each outcome of the strategy.
_make_ai_move(g, u) ==
    IF ~u.game_logic
    THEN {Handled(g, u, Event("_make_ai_move", FALSE, -1, -1, <<>>, FALSE, FALSE, FALSE, <<>>))}
    ELSE { AfterStrategy(g, u, s) :
             s \in (IF u.mode = "PVAIR" THEN make_ai_move_random(g) ELSE make_ai_move_smart(g)) }

_start_new_game(u, width, height, mode) ==
    Handled(GameLogicInit(width, height), [u EXCEPT !.mode = mode, !.game_logic = TRUE],
            Event("_start_new_game", TRUE, -1, -1, <<>>, FALSE, FALSE, FALSE, <<>>))

_update_grid_size(g, u, new_width, new_height) ==
    IF new_width > 30 \/ new_height > 33
    THEN Handled(g, u, Event("_update_grid_size", u.game_logic, -1, -1, <<>>,
                             FALSE, FALSE, FALSE, <<>>))
    ELSE _start_new_game(u, new_width, new_height, u.mode)

----------------------------------------------------------------------------
(* The window: DotsGame driven by its buttons, the canvas and the timer *)

\* DotsGame after __init__: a 30 x 33 board is configured, no game object
\* exists yet (the fields of GameLogic hold the values of an object not made).
UiInit ==
    /\ _grid_width = 30
    /\ _grid_height = 33
    /\ _grid = <<>>
    /\ _filled_cells = INITIAL_FILLED_CELLS
    /\ scores = (PLAYER_1 :> 0) @@ (PLAYER_2 :> 0)
    /\ current_player = PLAYER_1
    /\ lines = <<>>
    /\ last_captured = 0
    /\ _game_ui = <<>>
    /\ call = Call("__init__", 30, 33, FALSE, <<>>, <<>>)
    /\ opening = <<>>
    /\ _mode = "PVP"
    /\ _game_logic = FALSE
    /\ _root_after = 0
    /\ name_window = <<>>
    /\ game_over_window = 0
    /\ messagebox = <<>>
    /\ event = NoEvent
    /\ LbIdle

\* The state a handler leaves.
Handle(r) ==
    /\ Store(r.g)
    /\ StoreUi(r.u)
    /\ event' = r.ev
    /\ UNCHANGED call

\* The pixels clicked: just below and just at the middle between two grid
\* lines, from one cell before the board to one cell after it.
ClickPixels(offset, limit) ==
    { offset + k * CELL_SIZE + d :
        k \in (0 - 1)..(limit + 1), d \in {(CELL_SIZE \div 2) - 1, CELL_SIZE \div 2} }

\* The sizes typed into the two entries: small boards at least as wide as
\* high, and one beyond each limit.
SizeInputs ==
    { wh \in ((0..(MaxCells - 1)) \cup {31}) \X ((0..(MaxCells - 1)) \cup {34}) :
        wh[1] > 30 \/ wh[2] > 33 \/ (wh[2] <= wh[1] /\ (wh[1] + 1) * (wh[2] + 1) <= MaxCells) }

\* The size button.  A message box holds the grab while it waits, so no
\* button and no canvas click is handled until its OK button is pressed;
\* callbacks of root.after still run.
UpdateGridSize ==
    /\ messagebox = <<>>
    /\ game_over_window + Len(name_window) < MaxWindows
    /\ opening = <<>>
    /\ UNCHANGED <<opening, lbVars>>
    /\ \E wh \in SizeInputs : \E r \in {_update_grid_size(Obj, Ui, wh[1], wh[2])} : Handle(r)

\* One of the three mode buttons.
ModeButton ==
    /\ messagebox = <<>>
    /\ game_over_window + Len(name_window) < MaxWindows
    /\ (_grid_width + 1) * (_grid_height + 1) <= MaxCells
    /\ opening = <<>>
    /\ UNCHANGED <<opening, lbVars>>
    /\ \E mode \in Modes : \E r \in {_start_new_game(Ui, _grid_width, _grid_height, mode)} : Handle(r)

\* While the opening of a match is played, a handler run is the next step of
\* the opening: the human (either player in PVP mode, the first player in the
\* AI modes) or the AI puts the next mark of the opening on the board.
FollowsOpening(ev, human) ==
    IF opening = <<>> THEN TRUE
    ELSE /\ ev.placed = <<Head(opening)[2], Head(opening)[3]>>
         /\ human <=> (_mode = "PVP" \/ Head(opening)[1] = PLAYER_1)

RestOfOpening == IF opening = <<>> THEN opening ELSE Tail(opening)

\* A click on the canvas.
CanvasClick ==
    /\ messagebox = <<>>
    /\ UNCHANGED lbVars
    /\ opening' = RestOfOpening
    /\ \E event_x \in ClickPixels(OFFSET_X, _grid_width), event_y \in ClickPixels(OFFSET_Y, _grid_height) :
          \E r \in {_on_canvas_click(Obj, Ui, event_x, event_y)} :
              /\ r.u.root_after <= MaxPending
              /\ FollowsOpening(r.ev, TRUE)
              /\ Handle(r)

\* A scheduled AI turn comes due.
AiTimer ==
    /\ _root_after > 0
    /\ UNCHANGED lbVars
    /\ opening' = RestOfOpening
    /\ \E u \in {[Ui EXCEPT !.root_after = @ - 1]} : \E g \in {Obj} :
          \E r \in _make_ai_move(g, u) :
              /\ FollowsOpening(r.ev, FALSE)
              /\ Handle(r)

\* The end-game button.
EndButton ==
    /\ messagebox = <<>>
    /\ Len(name_window) < MaxWindows
    /\ opening = <<>>
    /\ UNCHANGED <<opening, lbVars>>
    /\ \E u \in {_end_game(Obj, Ui)} :
          Handle(Handled(Obj, u, Event("_end_game", _game_logic, -1, -1, <<>>,
                                       FALSE, TRUE, FALSE, <<>>)))

UiNext == UpdateGridSize \/ ModeButton \/ CanvasClick \/ AiTimer \/ EndButton

SpecUI == UiInit /\ [][UiNext]_vars

----------------------------------------------------------------------------
(* Two-player matches played to the end: a match is started only when none  *)
(* is held, and the players keep clicking; a click on an empty cell is made *)
(* sooner or later while there is one                                       *)

\* The size button, pressed while no match is held.
PvpGridSize ==
    /\ ~_game_logic
    /\ UpdateGridSize

\* A click on the grid point c.
GridClick(c) ==
    /\ messagebox = <<>>
    /\ UNCHANGED <<opening, lbVars>>
    /\ \E r \in {_on_canvas_click(Obj, Ui, OFFSET_X + c[1] * CELL_SIZE, OFFSET_Y + c[2] * CELL_SIZE)} :
          Handle(r)

\* A click on any grid point, empty or not.
PvpClick == \E c \in (0.._grid_width) \X (0.._grid_height) : GridClick(c)

\* A click on an empty grid point of the match held.
ValidClick ==
    /\ _game_logic
    /\ \E c \in (0.._grid_width) \X (0.._grid_height) :
          _grid[c[2]][c[1]] = EMPTY_CELL /\ GridClick(c)

PvpNext == PvpGridSize \/ PvpClick

SpecPvp == UiInit /\ [][PvpNext]_vars

\* A valid click is possible: a match is held and a grid point is empty.
CanClick == _game_logic /\ _filled_cells < (_grid_width + 1) * (_grid_height + 1)

\* Valid moves keep being submitted: weak fairness of ValidClick, with the
\* condition under which ValidClick can happen written out as CanClick.
SpecPvpFair == SpecPvp /\ ([]<>(~CanClick) \/ []<><<ValidClick>>_vars)

----------------------------------------------------------------------------
(* The window with matches on the 3 x 3 board: each match starts with an    *)
(* opening that leaves two or three cells to free play, so that marks are   *)
(* captured and a winner is asked for a name                                *)

\* The text typed into the name entry: the blanks before, the body, the
\* blanks after.
TypedNames == { <<"", "", "">>, <<" ", "", " ">>, <<"", "Alice", "">>, <<" ", "Alice", " ">>,
                <<"", _DEFAULT_NAME, "">> }

\* str.strip
strip(typed) == typed[2]

\* The sequence without its i-th element.
Without(seq, i) == [k \in 1..(Len(seq) - 1) |-> IF k < i THEN seq[k] ELSE seq[k + 1]]

\* The Save button of the i-th open winner dialog, with the text typed in it,
\* up to the point where messagebox.showinfo starts to wait for its OK button:
\* [u |-> DotsGame's fields, file |-> leaderboard.json, called |-> whether
\* update_leaderboard was called, updated |-> what it returned, raised |->
\* whether it raised].  The dialog stays open and the game object stays held
\* while showinfo waits.  With no name typed showerror is the last statement,
\* and an exception ends the callback: nothing follows either.
save_and_close(u, file, i, typed) ==
    LET player_name == strip(typed)
    IN  IF player_name # ""
        THEN Only({ [u |-> IF r.raised THEN u
                           ELSE [u EXCEPT !.messagebox = <<[name_window |-> i, updated |-> r.ret]>>],
                     file |-> r.file, called |-> TRUE, updated |-> r.ret, raised |-> r.raised]
                    : r \in {update_leaderboard(file, player_name, u.name_window[i].winning_score)} })
        ELSE [u |-> u, file |-> file, called |-> FALSE, updated |-> FALSE, raised |-> FALSE]

\* save_and_close after messagebox.showinfo has returned: the dialog is
\* destroyed and the result window shown.
save_and_close_resumed(u) ==
    _show_game_over_message([u EXCEPT !.name_window = Without(@, u.messagebox[1].name_window),
                                      !.messagebox = <<>>])

\* The openings, as <<player, x, y>> in the order played.  In the first the
\* second player is one mark from enclosing the centre, in the second the
\* first player is.
SecondEncloses ==
    << <<1, 1, 1>>, <<2, 1, 0>>, <<1, 0, 0>>, <<2, 0, 1>>, <<1, 2, 0>>, <<2, 2, 1>>, <<1, 0, 2>> >>

FirstEncloses ==
    << <<1, 1, 0>>, <<2, 1, 1>>, <<1, 0, 1>>, <<2, 0, 0>>, <<1, 2, 1>>, <<2, 2, 0>> >>

\* The matches played: two-player and against the random AI.
MatchPositions ==
    { [w |-> 2, h |-> 2, mode |-> "PVP", moves |-> FirstEncloses],
      [w |-> 2, h |-> 2, mode |-> "PVAIR", moves |-> SecondEncloses] }

\* The size button, for the board of a match.
MatchGridSize ==
    /\ messagebox = <<>>
    /\ game_over_window + Len(name_window) < MaxWindows
    /\ UNCHANGED lbVars
    /\ \E p \in MatchPositions :
          /\ p.mode = _mode
          /\ opening' = p.moves
          /\ \E r \in {_update_grid_size(Obj, Ui, p.w, p.h)} : Handle(r)

\* A mode button, for a match on the board configured.
MatchModeButton ==
    /\ messagebox = <<>>
    /\ game_over_window + Len(name_window) < MaxWindows
    /\ UNCHANGED lbVars
    /\ \E p \in MatchPositions :
          /\ p.w = _grid_width /\ p.h = _grid_height
          /\ opening' = p.moves
          /\ \E r \in {_start_new_game(Ui, _grid_width, _grid_height, p.mode)} : Handle(r)

\* The Save button of an open winner dialog.
SaveAndClose ==
    /\ messagebox = <<>>
    /\ UNCHANGED <<gameVars, _game_ui, call, opening>>
    /\ \E i \in 1..Len(name_window), typed \in TypedNames :
          \E r \in {save_and_close(Ui, _leaderboard_file, i, typed)} :
              /\ StoreUi(r.u)
              /\ _leaderboard_file' = r.file
              /\ event' = Event("save_and_close", r.called, -1, -1, <<>>, FALSE, FALSE, FALSE, <<>>)
              /\ lb_call' = IF r.called
                            THEN [op |-> "update_leaderboard", new_name |-> strip(typed),
                                  new_score |-> name_window[i].winning_score, ret |-> r.updated,
                                  raised |-> r.raised,
                                  before |-> load_leaderboard(_leaderboard_file),
                                  submitted |-> <<>>]
                            ELSE lb_call

\* The OK button of the message box save_and_close is waiting in.
ShowinfoOk ==
    /\ messagebox # <<>>
    /\ UNCHANGED <<gameVars, _game_ui, call, opening, lbVars>>
    /\ StoreUi(save_and_close_resumed(Ui))
    /\ event' = Event("save_and_close_resumed", TRUE, -1, -1, <<>>, FALSE, FALSE, FALSE, <<>>)

MatchNext ==
    \/ MatchGridSize \/ MatchModeButton \/ CanvasClick \/ AiTimer \/ EndButton
    \/ SaveAndClose \/ ShowinfoOk

SpecMatch == UiInit /\ [][MatchNext]_vars

----------------------------------------------------------------------------
(* Vocabulary of the properties, stated on the variables *)

Cells == (0.._grid_width) \X (0.._grid_height)

TotalCells == (_grid_width + 1) * (_grid_height + 1)

Mark(c) == _grid[c[2]][c[1]]

InGrid(x, y) == 0 <= x /\ x <= _grid_width /\ 0 <= y /\ y <= _grid_height

\* (x, y) is in bounds and empty.
EmptyCell(x, y) == InGrid(x, y) /\ _grid[y][x] = EMPTY_CELL

\* The call just made (the step's new call record) is place_dot.
PlaceDotCalled == call'.op = "place_dot"

AiOps == {"make_ai_move_random", "make_ai_move_smart"}

----------------------------------------------------------------------------
(* C1 *)

\* C1: a place_dot(x, y) with (x, y) out of bounds or on a non-empty cell
\* returns False and leaves the grid, the filled-cell counter, both scores, the
\* current player, last_captured and the segment list as they were.
C1_RejectedPlaceDotChangesNothing ==
    [][ (PlaceDotCalled /\ ~EmptyCell(call'.x, call'.y))
            => (call'.ret = FALSE /\ UNCHANGED gameVars) ]_vars

\* A place_dot on an occupied cell was rejected in the middle of a match in
\* which a capture has been counted and segments exist.
C1_Witness ==
    /\ call.op = "place_dot"
    /\ call.placed = <<>>
    /\ ~call.ret
    /\ InGrid(call.x, call.y)
    /\ _grid[call.y][call.x] # EMPTY_CELL
    /\ _filled_cells < TotalCells
    /\ last_captured > 0
    /\ lines # <<>>

----------------------------------------------------------------------------
(* C2 *)

\* C2: after any sequence of calls from a new game the filled-cell counter is
\* the number of non-empty cells and is at most (width+1)*(height+1).
C2_FilledCountsMarks ==
    /\ _filled_cells = Cardinality({c \in Cells : Mark(c) # EMPTY_CELL})
    /\ _filled_cells <= TotalCells

\* An AI strategy has just placed the mark that fills the board.
C2_Witness ==
    /\ call.op \in AiOps
    /\ call.placed # <<>>
    /\ _filled_cells = TotalCells

----------------------------------------------------------------------------
(* C3 *)

\* C3: an accepted place_dot(x, y) sets exactly cell (x, y) to the current
\* player's mark, changes no other cell and adds exactly 1 to the counter.
C3_AcceptedPlaceDotSetsOneCell ==
    [][ (PlaceDotCalled /\ EmptyCell(call'.x, call'.y))
            => /\ _grid' = [_grid EXCEPT ![call'.y][call'.x] = current_player]
               /\ _filled_cells' = _filled_cells + 1 ]_vars

\* The second player's place_dot was accepted and captured: the captured marks
\* are still on the board.
C3_Witness ==
    /\ call.op = "place_dot"
    /\ call.placed = <<call.x, call.y>>
    /\ current_player = PLAYER_2
    /\ _grid[call.y][call.x] = PLAYER_2
    /\ last_captured > 0

----------------------------------------------------------------------------
(* C4 *)

\* The coordinates is_valid_move is asked about.
Probe == ((0 - Margin - 1)..(_grid_width + Margin + 1)) \X ((0 - Margin - 1)..(_grid_height + Margin + 1))

\* C4: is_valid_move(x, y) is true iff 0 <= x <= width, 0 <= y <= height and
\* the cell is empty; and place_dot(x, y) changes the board iff
\* is_valid_move(x, y) is true.
C4_ValidMoveIffInBoundsAndEmpty ==
    /\ [](\A c \in Probe : is_valid_move(Obj, c[1], c[2]) <=> EmptyCell(c[1], c[2]))
    /\ [][ PlaceDotCalled
             => ((_grid' # _grid) <=> is_valid_move(Obj, call'.x, call'.y)) ]_vars

\* place_dot was accepted on the far corner (width, height).
C4_Witness ==
    /\ call.op = "place_dot"
    /\ call.placed = <<_grid_width, _grid_height>>
    /\ call.x = _grid_width
    /\ call.y = _grid_height

----------------------------------------------------------------------------
(* Regions and enclosure, defined on a grid without the traversal *)

OnEdge(c) == c[1] = 0 \/ c[1] = _grid_width \/ c[2] = 0 \/ c[2] = _grid_height

Adjacent(c, d) ==
    \/ (c[1] = d[1] /\ (c[2] = d[2] + 1 \/ d[2] = c[2] + 1))
    \/ (c[2] = d[2] /\ (c[1] = d[1] + 1 \/ d[1] = c[1] + 1))

\* The in-bounds 4-neighbours of (x, y).
Neighbours4(x, y) == {c \in Cells : Adjacent(c, <<x, y>>)}

\* The least set holding S and closed under stepping to an adjacent cell of
\* grid gr that is empty or player's.
RECURSIVE Grow(_, _, _)
Grow(gr, S, player) ==
    LET T == S \cup {c \in Cells : /\ gr[c[2]][c[1]] \in {player, EMPTY_CELL}
                                  /\ \E d \in S : Adjacent(c, d)}
    IN  IF T = S THEN S ELSE Grow(gr, T, player)

RegionIn(gr, seed, player) == Grow(gr, {seed}, player)

\* Every in-bounds neighbour of R that is outside R holds the other colour.
BorderedIn(gr, R, player) ==
    \A c \in R, d \in Cells : (Adjacent(c, d) /\ d \notin R) => gr[d[2]][d[1]] = Other(player)

\* A region is enclosed: it has no cell on the board edge and is bordered by
\* the other colour.
EnclosedIn(gr, R, player) == (\A c \in R : ~OnEdge(c)) /\ BorderedIn(gr, R, player)

MarksIn(gr, R, player) == Cardinality({c \in R : gr[c[2]][c[1]] = player})

\* The neighbours of (x, y) that hold owner's mark: the seeds of the capture
\* and self-capture scans.
SeedsIn(gr, x, y, owner) == {c \in Neighbours4(x, y) : gr[c[2]][c[1]] = owner}

\* The step is an accepted place_dot that does not fill the board.
AcceptedNotFilling ==
    /\ PlaceDotCalled
    /\ EmptyCell(call'.x, call'.y)
    /\ _filled_cells + 1 < TotalCells

\* The current state follows an accepted place_dot that did not fill the board.
AfterAcceptedNotFilling ==
    /\ call.op = "place_dot"
    /\ call.placed = <<call.x, call.y>>
    /\ _filled_cells < TotalCells

----------------------------------------------------------------------------
(* C5 *)

\* C5: place_dot returns True exactly on the accepted move after which
\* _filled_cells = total cells; that move leaves both scores as they were,
\* whatever it encloses; every other call returns False.
C5_TrueExactlyOnFillingMove ==
    [][ PlaceDotCalled
          => /\ call'.ret <=> (EmptyCell(call'.x, call'.y) /\ _filled_cells' = TotalCells)
             /\ call'.ret => scores' = scores ]_vars

\* The move that filled the board closed the last side of an opponent region
\* that has no cell on the edge.
C5_Witness ==
    /\ call.op = "place_dot"
    /\ call.ret
    /\ call.placed = <<call.x, call.y>>
    /\ _filled_cells = TotalCells
    /\ \E n \in SeedsIn(_grid, call.x, call.y, Other(Mark(call.placed))) :
           EnclosedIn(_grid, RegionIn(_grid, n, Mark(n)), Mark(n))

----------------------------------------------------------------------------
(* C6 *)

\* C6: once the board is full, no place_dot, make_ai_move_random or
\* make_ai_move_smart call changes the grid, the counter, the scores or the
\* current player.
C6_FullBoardIsTerminal ==
    [][ (_filled_cells = TotalCells /\ call'.op \in {"place_dot"} \cup AiOps)
          => UNCHANGED <<_grid, _filled_cells, scores, current_player>> ]_vars

\* An AI strategy was called on a full board and returned no move.
C6_Witness ==
    /\ _filled_cells = TotalCells
    /\ call.op \in AiOps
    /\ call.placed = <<>>
    /\ call.move = <<>>

----------------------------------------------------------------------------
(* C7 *)

\* The traversal's answer for seed c and owner p on the current board.
GroupAt(c, p) == _get_group_with_status(Obj, c[1], c[2], p)

\* C7: a group that contains a cell on the board edge (in particular one
\* whose seed is on the edge) is never reported enclosed.
C7_EdgeGroupNeverEnclosed ==
    \A c \in Cells, p \in {PLAYER_1, PLAYER_2} :
        (\E e \in SeqToSet(GroupAt(c, p).group) : OnEdge(e)) => ~GroupAt(c, p).is_surrounded

\* A single mark on the edge has the other colour on every in-bounds side,
\* and its group is reported not enclosed.
C7_Witness ==
    \E c \in Cells :
        /\ OnEdge(c)
        /\ Mark(c) # EMPTY_CELL
        /\ RegionIn(_grid, c, Mark(c)) = {c}
        /\ BorderedIn(_grid, {c}, Mark(c))
        /\ GroupAt(c, Mark(c)).group = <<c>>
        /\ ~GroupAt(c, Mark(c)).is_surrounded

----------------------------------------------------------------------------
(* C8 *)

\* C8 as stated: a group whose every in-bounds neighbour outside the group
\* holds the opposing colour is reported enclosed.
C8_BorderedGroupEnclosed ==
    \A c \in Cells, p \in {PLAYER_1, PLAYER_2} :
        BorderedIn(_grid, SeqToSet(GroupAt(c, p).group), p) => GroupAt(c, p).is_surrounded

\* C8 amended: a group that has no cell on the board edge and whose every
\* in-bounds neighbour outside the group holds the opposing colour is reported
\* enclosed, whatever its size or shape.
C8_InnerBorderedGroupEnclosed ==
    \A c \in Cells, p \in {PLAYER_1, PLAYER_2} :
        ( /\ \A e \in SeqToSet(GroupAt(c, p).group) : ~OnEdge(e)
          /\ BorderedIn(_grid, SeqToSet(GroupAt(c, p).group), p) )
            => GroupAt(c, p).is_surrounded

\* A group of two or more cells away from the edge is reported enclosed.
C8_Witness ==
    \E c \in Cells :
        /\ Mark(c) # EMPTY_CELL
        /\ Len(GroupAt(c, Mark(c)).group) >= 2
        /\ \A e \in RegionIn(_grid, c, Mark(c)) : ~OnEdge(e)
        /\ GroupAt(c, Mark(c)).is_surrounded

----------------------------------------------------------------------------
(* C9 *)

\* The enclosed opponent region seeded at n is reached from exactly one
\* neighbour of the mark just placed at (x, y).
ReachedOnce(gr, x, y, n, opp) ==
    /\ EnclosedIn(gr, RegionIn(gr, n, opp), opp)
    /\ SeedsIn(gr, x, y, opp) \cap RegionIn(gr, n, opp) = {n}

\* C9 as stated: an accepted, non-filling move that encloses an opponent group
\* of k opponent marks reached from exactly one neighbour of the placed mark
\* adds exactly k to the mover's score.
C9_CaptureAddsGroupMarks ==
    [][ AcceptedNotFilling
          => \A n \in SeedsIn(_grid', call'.x, call'.y, Other(current_player)) :
                 ReachedOnce(_grid', call'.x, call'.y, n, Other(current_player))
                   => scores'[current_player] = scores[current_player]
                        + MarksIn(_grid', RegionIn(_grid', n, Other(current_player)),
                                  Other(current_player)) ]_vars

\* C9 amended: ... and no other neighbour of the placed mark seeds another
\* enclosed opponent group.
C9_SingleCaptureAddsGroupMarks ==
    [][ AcceptedNotFilling
          => \A n \in SeedsIn(_grid', call'.x, call'.y, Other(current_player)) :
                 ( /\ ReachedOnce(_grid', call'.x, call'.y, n, Other(current_player))
                   /\ \A o \in SeedsIn(_grid', call'.x, call'.y, Other(current_player)) :
                          EnclosedIn(_grid', RegionIn(_grid', o, Other(current_player)),
                                     Other(current_player))
                            => o = n )
                   => scores'[current_player] = scores[current_player]
                        + MarksIn(_grid', RegionIn(_grid', n, Other(current_player)),
                                  Other(current_player)) ]_vars

\* The move just made enclosed one opponent group, reached from one neighbour,
\* that holds an empty cell besides its marks.
C9_Witness ==
    /\ AfterAcceptedNotFilling
    /\ last_captured >= 1
    /\ \E n \in SeedsIn(_grid, call.x, call.y, Other(current_player)) :
           /\ ReachedOnce(_grid, call.x, call.y, n, Other(current_player))
           /\ \E e \in RegionIn(_grid, n, Other(current_player)) : Mark(e) = EMPTY_CELL
           /\ \A o \in SeedsIn(_grid, call.x, call.y, Other(current_player)) :
                  EnclosedIn(_grid, RegionIn(_grid, o, Other(current_player)), Other(current_player))
                    => o = n

----------------------------------------------------------------------------
(* C10 *)

\* C10 as stated: an accepted, non-filling move that leaves the group of the
\* placed mark, holding k >= 1 marks of the mover, enclosed by the opponent adds
\* exactly k to the opponent's score, when at most one neighbour of the placed
\* mark holds a mark of the mover (no group is reached twice).
C10_SelfCaptureAddsGroupMarks ==
    [][ ( /\ AcceptedNotFilling
          /\ EnclosedIn(_grid', RegionIn(_grid', <<call'.x, call'.y>>, current_player),
                        current_player)
          /\ Cardinality(SeedsIn(_grid', call'.x, call'.y, current_player)) <= 1 )
          => scores'[Other(current_player)] = scores[Other(current_player)]
               + MarksIn(_grid', RegionIn(_grid', <<call'.x, call'.y>>, current_player),
                         current_player) ]_vars

----------------------------------------------------------------------------
(* C16 *)

\* What the logged score additions of a call sum to for one player.
RECURSIVE LoggedFor(_, _)
LoggedFor(log, player) ==
    IF log = <<>> THEN 0
    ELSE (IF Head(log)[1] = "scores" /\ Head(log)[2] = player THEN Head(log)[3] ELSE 0)
         + LoggedFor(Tail(log), player)

\* C16: every change of a score is followed, within the same call and before
\* any further score change, by update_scoreboard; no score changes without a
\* notification after it.
C16_ScoreChangeNotified ==
    /\ [](\A i \in 1..Len(_game_ui) :
              _game_ui[i][1] = "scores"
                => (i < Len(_game_ui) /\ _game_ui[i + 1] = update_scoreboard))
    /\ [][ /\ \A p \in {PLAYER_1, PLAYER_2} : scores'[p] = scores[p] + LoggedFor(_game_ui', p)
           /\ scores' # scores => _game_ui'[Len(_game_ui')] = update_scoreboard ]_vars

\* One place_dot call changed the scores twice, each change notified.
C16_Witness ==
    /\ call.op = "place_dot"
    /\ Len(_game_ui) >= 4
    /\ _game_ui[1][1] = "scores"
    /\ _game_ui[3][1] = "scores"

----------------------------------------------------------------------------
(* C12 *)

\* C12: in every step neither score decreases, no score is negative, and a
\* cell that holds a mark holds the same mark afterwards.
C12_ScoresGrowMarksStay ==
    /\ [](\A p \in {PLAYER_1, PLAYER_2} : scores[p] >= 0)
    /\ [][ /\ \A p \in {PLAYER_1, PLAYER_2} : scores'[p] >= scores[p]
           /\ \A c \in Cells : Mark(c) # EMPTY_CELL => _grid'[c[2]][c[1]] = Mark(c) ]_vars

\* A group that was captured is still on the board, with its owner's marks, in
\* a later call.
C12_Witness ==
    /\ call.op = "switch_player"
    /\ \E c \in Cells :
           /\ Mark(c) # EMPTY_CELL
           /\ EnclosedIn(_grid, RegionIn(_grid, c, Mark(c)), Mark(c))
           /\ scores[Other(Mark(c))] >= 1

----------------------------------------------------------------------------
(* C17 *)

\* C17: on a board with no empty cell make_ai_move_random has an outcome (it
\* does not raise), and its only outcome is to return None and leave the object
\* as it was.
C17_RandomOnFullBoardReturnsNone ==
    /\ []((\A c \in Cells : Mark(c) # EMPTY_CELL)
             => make_ai_move_random(Obj) = {AiResult(Obj, <<>>)})
    /\ [][ ((\A c \in Cells : Mark(c) # EMPTY_CELL) /\ call'.op = "make_ai_move_random")
             => (call'.move = <<>> /\ UNCHANGED gameVars) ]_vars

\* make_ai_move_random was called on a full board and returned None.
C17_Witness ==
    /\ \A c \in Cells : Mark(c) # EMPTY_CELL
    /\ call.op = "make_ai_move_random"
    /\ call.move = <<>>
    /\ call.placed = <<>>

----------------------------------------------------------------------------
(* C13 *)

\* The grid with the second player's mark placed on (x, y).
WithAiMark(x, y) == [_grid EXCEPT ![y][x] = PLAYER_2]

\* The empty cells on which the second player's mark would leave an adjacent
\* group of the first player enclosed.
CapturingCells ==
    {c \in Cells :
        /\ Mark(c) = EMPTY_CELL
        /\ \E n \in SeedsIn(WithAiMark(c[1], c[2]), c[1], c[2], PLAYER_1) :
               EnclosedIn(WithAiMark(c[1], c[2]),
                          RegionIn(WithAiMark(c[1], c[2]), n, PLAYER_1), PLAYER_1)}

\* The first cell of S in row-major order (y outer, x inner).
FirstRowMajor(S) ==
    CHOOSE c \in S : \A d \in S : c[2] < d[2] \/ (c[2] = d[2] /\ c[1] <= d[1])

\* C13 as stated: when the second player is to move and some empty cell would
\* capture, make_ai_move_smart places its mark on the first such cell in
\* row-major order.
C13_SmartTakesFirstCapture ==
    [][ (current_player = PLAYER_2 /\ call'.op = "make_ai_move_smart" /\ CapturingCells # {})
          => call'.placed = FirstRowMajor(CapturingCells) ]_vars

----------------------------------------------------------------------------
(* C11 *)

\* The 6 x 6 board is empty except for the first player's three marks.
ScenarioBoard ==
    /\ _grid_width = 5
    /\ _grid_height = 5
    /\ \A c \in Cells : Mark(c) = IF c \in ScenarioMarks THEN PLAYER_1 ELSE EMPTY_CELL

\* The step places the second player's mark on (2, 2) of the scenario board.
ScenarioMove ==
    /\ ScenarioBoard
    /\ current_player = PLAYER_2
    /\ PlaceDotCalled
    /\ call'.x = 2
    /\ call'.y = 2

\* The verdict of the group analysis for the first player's group on the grid
\* the step leaves.
ScenarioGroupAfter ==
    _get_group_with_status([Obj EXCEPT !.grid = _grid'], 1, 1, PLAYER_1)

\* C11 as stated: on the scenario board the second player's placement on (2, 2)
\* makes the group {(1,1), (1,2), (2,1)} enclosed and adds 3 to the second
\* player's score.
C11_ScenarioScoresThree ==
    [][ ScenarioMove
          => /\ ScenarioGroupAfter.is_surrounded
             /\ scores'[PLAYER_2] = scores[PLAYER_2] + 3 ]_vars

\* C11 amended: on the scenario board the second player's placement on (2, 2)
\* is accepted, leaves the group of (1,1), (1,2), (2,1) not enclosed and changes
\* no score; last_captured is 0.
C11_ScenarioScoresNothing ==
    [][ ScenarioMove
          => /\ _grid' = [_grid EXCEPT ![2][2] = PLAYER_2]
             /\ ~ScenarioGroupAfter.is_surrounded
             /\ ScenarioMarks \subseteq SeqToSet(ScenarioGroupAfter.group)
             /\ scores' = scores
             /\ last_captured' = 0 ]_vars

\* The second player's mark has just been placed on (2, 2) of the scenario board.
C11_Witness ==
    /\ call.op = "place_dot"
    /\ call.placed = <<2, 2>>
    /\ _grid_width = 5
    /\ _grid_height = 5
    /\ \A c \in Cells :
           Mark(c) = IF c \in ScenarioMarks THEN PLAYER_1
                     ELSE IF c = <<2, 2>> THEN PLAYER_2 ELSE EMPTY_CELL
    /\ scores[PLAYER_2] = 0

----------------------------------------------------------------------------
(* Vocabulary of the leaderboard properties *)

\* The step is an update_leaderboard call.
UpdateCalled == lb_call'.op = "update_leaderboard"

\* The list a load_leaderboard call returns now.
Loaded == load_leaderboard(_leaderboard_file)

Sentinel(r) == r.name = _DEFAULT_NAME

\* The list the call was made on, with the candidate appended.
WithCandidate(c) == Append(c.before, LeaderboardEntry(0, c.new_name, c.new_score))

\* new holds three of the records of all, with places 1, 2, 3, in an order in
\* which each record may precede the next, and the record left out may follow
\* every record kept.
FirstThree(MayPrecede(_, _), all, new) ==
    /\ Len(new) = 3
    /\ \A i \in 1..3 : new[i].place = i
    /\ \E f \in [1..3 -> 1..Len(all)] :
          /\ \A i, j \in 1..3 : i # j => f[i] # f[j]
          /\ \A i \in 1..3 : new[i].name = all[f[i]].name /\ new[i].score = all[f[i]].score
          /\ \A i, j \in 1..3 : i < j => MayPrecede(new[i], new[j])
          /\ \A k \in 1..Len(all) :
                (\A i \in 1..3 : f[i] # k) => \A i \in 1..3 : MayPrecede(new[i], all[k])

\* Descending score, records with the placeholder name last.
SentinelLast(a, b) ==
    IF Sentinel(a) THEN Sentinel(b) ELSE (Sentinel(b) \/ a.score >= b.score)

\* Descending score, a record with the placeholder name counting as score -1.
SentinelAsMinusOne(a, b) ==
    (IF Sentinel(a) THEN -1 ELSE a.score) >= (IF Sentinel(b) THEN -1 ELSE b.score)

\* The leaderboard of the example: Alice 100, Bob 80, Charlie 50.
ExampleFile ==
    save_leaderboard(<< LeaderboardEntry(1, "Alice", 100), LeaderboardEntry(2, "Bob", 80),
                        LeaderboardEntry(3, "Charlie", 50) >>)

----------------------------------------------------------------------------
(* C18 *)

\* C18: update_leaderboard returns False exactly when the last record of the
\* loaded list has a name other than the placeholder and a score >= the new
\* score (on an empty list, which has no last record, it raises and returns
\* nothing); a call that returns False leaves the file as it was.
C18_RejectedIffLowestNotBeaten ==
    [][ UpdateCalled
          => /\ (~lb_call'.raised /\ lb_call'.ret = FALSE)
                  <=> (IF Loaded = <<>> THEN FALSE
                       ELSE /\ ~Sentinel(Loaded[Len(Loaded)])
                            /\ Loaded[Len(Loaded)].score >= lb_call'.new_score)
             /\ lb_call'.ret = FALSE => UNCHANGED _leaderboard_file ]_vars

\* A score equal to the lowest listed score was rejected.
C18_Witness ==
    /\ lb_call.op = "update_leaderboard"
    /\ lb_call.ret = FALSE
    /\ Len(lb_call.before) = 3
    /\ ~Sentinel(lb_call.before[3])
    /\ lb_call.before[3].score = lb_call.new_score
    /\ Loaded = lb_call.before

----------------------------------------------------------------------------
(* C19 *)

\* C19: an accepted update persists the first three of the old
\* records and the candidate sorted by descending score with the records of
\* placeholder name last, with places 1, 2, 3.
C19_PersistsTopThreeSentinelLast ==
    [][ (UpdateCalled /\ lb_call'.ret)
          => /\ _leaderboard_file'.exists
             /\ FirstThree(SentinelLast, WithCandidate(lb_call'), _leaderboard_file'.data) ]_vars

\* What update_leaderboard persists when it accepts: the first three of the old
\* records and the candidate sorted by descending score, a record of
\* placeholder name counting as score -1, with places 1, 2, 3; the example list
\* updated with (Dave, 90) becomes Alice(1), Dave(2), Bob(3).
PersistsTopThreeByKey ==
    /\ [][ (UpdateCalled /\ lb_call'.ret)
             => /\ _leaderboard_file'.exists
                /\ FirstThree(SentinelAsMinusOne, WithCandidate(lb_call'),
                              _leaderboard_file'.data) ]_vars
    /\ [](update_leaderboard(ExampleFile, "Dave", 90)
            = [file |-> save_leaderboard(<< LeaderboardEntry(1, "Alice", 100),
                                            LeaderboardEntry(2, "Dave", 90),
                                            LeaderboardEntry(3, "Bob", 80) >>),
               ret |-> TRUE, raised |-> FALSE])

----------------------------------------------------------------------------
(* C20 *)

\* C20: the loaded list has exactly three records with places 1, 2, 3 in
\* order, no record of placeholder name before a named one, and the scores of
\* the named records in non-increasing order.
C20_LoadedListWellFormed ==
    /\ Len(Loaded) = 3
    /\ \A i \in 1..Len(Loaded) : Loaded[i].place = i
    /\ \A i, j \in 1..Len(Loaded) :
          i < j => /\ Sentinel(Loaded[i]) => Sentinel(Loaded[j])
                   /\ (~Sentinel(Loaded[i]) /\ ~Sentinel(Loaded[j]))
                        => Loaded[i].score >= Loaded[j].score

\* After an accepted update the list holds two named records with different
\* scores and one placeholder.
C20_Witness ==
    /\ lb_call.op = "update_leaderboard"
    /\ lb_call.ret
    /\ _leaderboard_file.exists
    /\ ~Sentinel(Loaded[2])
    /\ Loaded[1].score > Loaded[2].score
    /\ Sentinel(Loaded[3])

----------------------------------------------------------------------------
(* Vocabulary of the window properties *)

\* The handlers that can place a mark.
ClickHandled == event'.op = "_on_canvas_click" /\ event'.ran

TurnHandled == event'.op \in {"_on_canvas_click", "_make_ai_move"} /\ event'.ran

\* How many marks player holds on the board.
MarksOf(player) == MarksIn(_grid, Cells, player)

\* A match is in progress on a board that is not full.
InProgress == _game_logic /\ _filled_cells < TotalCells

----------------------------------------------------------------------------
(* C14 *)

\* C14: in PVP mode an accepted click that does not fill the board switches
\* the current player and a rejected click does not, so while a player is to
\* move the first player holds as many marks as the second when the first is
\* to move and one more when the second is to move.
C14_PlayersAlternate ==
    /\ [][ (ClickHandled /\ _mode = "PVP")
             => /\ (event'.placed # <<>> /\ ~event'.game_ended)
                     => current_player' # current_player
                /\ event'.placed = <<>> => current_player' = current_player ]_vars
    /\ []((InProgress /\ _mode = "PVP")
            => MarksOf(PLAYER_1) - MarksOf(PLAYER_2) = (IF current_player = PLAYER_1 THEN 0 ELSE 1))

\* A click on an occupied cell was rejected with three marks on a board of
\* four cells and the second player to move.
C14_Witness ==
    /\ _mode = "PVP"
    /\ InProgress
    /\ event.op = "_on_canvas_click"
    /\ event.ran
    /\ event.placed = <<>>
    /\ _filled_cells = 3
    /\ current_player = PLAYER_2

----------------------------------------------------------------------------
(* C15 *)

\* C15: a placement that fills the board, by a click or by an AI turn, has
\* _end_game run in the same handler.
C15_FillingPlacementEndsMatch ==
    [][ (TurnHandled /\ event'.placed # <<>>
           /\ _filled_cells' = (_grid_width' + 1) * (_grid_height' + 1))
          => event'.end_game ]_vars

----------------------------------------------------------------------------
(* C21 *)

\* How many elements of the sequence of numbers seq equal v.
CountIn(seq, v) == Cardinality({i \in 1..Len(seq) : seq[i] = v})

\* The scores of the named records of the list, in list order.
NamedScores(leaderboard) ==
    LET named == SelectSeq(leaderboard, LAMBDA r : ~Sentinel(r))
    IN  [i \in 1..Len(named) |-> named[i].score]

\* kept holds the highest elements of all, as many as there are up to three,
\* as a multiset.
HighestThree(kept, all) ==
    /\ Len(kept) = (IF Len(all) < 3 THEN Len(all) ELSE 3)
    /\ \A v \in 0..MaxScore : CountIn(kept, v) <= CountIn(all, v)
    /\ \A v, w \in 0..MaxScore :
          (CountIn(kept, v) < CountIn(all, v) /\ CountIn(kept, w) > 0) => v <= w

\* C21: from an absent file, after any sequence of update_leaderboard calls
\* with players' names and scores >= 0, the scores of the named records of the
\* persisted list are the highest scores submitted so far, up to three, as a
\* multiset.
C21_HoldsHighestSubmitted == HighestThree(NamedScores(Loaded), lb_call.submitted)

\* Four results were submitted, the last was accepted, and a lower one that
\* was listed is listed no more.
C21_Witness ==
    /\ Len(lb_call.submitted) = 4
    /\ lb_call.ret
    /\ \A i \in 1..3 : ~Sentinel(lb_call.before[i])
    /\ lb_call.before[3].score < lb_call.new_score
    /\ CountIn(NamedScores(Loaded), lb_call.before[3].score)
         < CountIn(lb_call.submitted, lb_call.before[3].score)

----------------------------------------------------------------------------
(* C22 *)

\* The pixel of a cell, as the segment records hold it.
Pixel(c) == <<c[1] * CELL_SIZE + OFFSET_X, c[2] * CELL_SIZE + OFFSET_Y>>

\* Two different cells that touch by a side or by a corner.
Adjacent8(c, d) ==
    /\ c # d
    /\ c[1] - d[1] \in {-1, 0, 1}
    /\ c[2] - d[2] \in {-1, 0, 1}

\* Two touching cells holding marks of one owner.
LinkedPair(c, d) == Adjacent8(c, d) /\ Mark(c) # EMPTY_CELL /\ Mark(c) = Mark(d)

\* The segment record joins the two cells, in either direction.
Joins(line, c, d) ==
    \/ <<line[1], line[2]>> = Pixel(c) /\ <<line[3], line[4]>> = Pixel(d)
    \/ <<line[1], line[2]>> = Pixel(d) /\ <<line[3], line[4]>> = Pixel(c)

\* One record for every pair of touching marks of one owner, none for another pair.
SegmentPerPair ==
    /\ \A c, d \in Cells :
          LinkedPair(c, d) => Cardinality({i \in 1..Len(lines) : Joins(lines[i], c, d)}) = 1
    /\ \A i \in 1..Len(lines) : \E c, d \in Cells : LinkedPair(c, d) /\ Joins(lines[i], c, d)

\* C22: after any sequence of accepted moves, the move that fills the board
\* included, the segment list holds exactly one record for every pair of
\* 8-directionally adjacent marks of one owner and no record for another pair.
C22_SegmentPerAdjacentPair == SegmentPerPair

\* What the code keeps: the segment list matches the pairs while the board is
\* not full.
SegmentPerPairUntilFull == _filled_cells < TotalCells => SegmentPerPair

----------------------------------------------------------------------------
(* C23 *)

\* The step ran _end_game on a game object.
EndGameRan == event'.end_game /\ _game_logic

\* C23: determine_result(blue, red) is BLUE_WIN iff blue > red, RED_WIN iff
\* red > blue and DRAW iff blue = red; _end_game opens a winner dialog only
\* when the scores differ, holding the higher score, which is the score a
\* Save of that dialog submits; no other handler opens one.
C23_ResultAndOffer ==
    /\ [](\A blue \in 0..MaxScore, red \in 0..MaxScore :
            /\ determine_result(blue, red) = "BLUE_WIN" <=> blue > red
            /\ determine_result(blue, red) = "RED_WIN" <=> red > blue
            /\ determine_result(blue, red) = "DRAW" <=> blue = red)
    /\ [][ EndGameRan
             => IF scores'[BLUE_TEAM] = scores'[RED_TEAM]
                THEN name_window' = name_window
                ELSE name_window'
                       = Append(name_window,
                                IF scores'[BLUE_TEAM] > scores'[RED_TEAM]
                                THEN [result |-> "BLUE_WIN", winning_score |-> scores'[BLUE_TEAM]]
                                ELSE [result |-> "RED_WIN", winning_score |-> scores'[RED_TEAM]]) ]_vars
    /\ [][ Len(name_window') > Len(name_window) => EndGameRan ]_vars
    /\ [][ (event'.op = "save_and_close" /\ event'.ran)
             => \E i \in 1..Len(name_window) :
                   /\ messagebox' = <<[name_window |-> i, updated |-> lb_call'.ret]>>
                   /\ lb_call'.new_score = name_window[i].winning_score ]_vars
    /\ [][ event'.op = "save_and_close_resumed"
             => name_window' = Without(name_window, messagebox[1].name_window) ]_vars

\* _end_game has just opened a dialog for blue, who leads by its score.
C23_Witness ==
    /\ event.end_game
    /\ name_window # <<>>
    /\ name_window[Len(name_window)] = [result |-> "BLUE_WIN", winning_score |-> scores[BLUE_TEAM]]
    /\ scores[BLUE_TEAM] > scores[RED_TEAM]

----------------------------------------------------------------------------
(* C24 *)

\* The game object is the one __init__ makes: empty board, no score, the first
\* player to move.
Fresh ==
    /\ _game_logic
    /\ _filled_cells = 0
    /\ \A c \in Cells : Mark(c) = EMPTY_CELL
    /\ scores[PLAYER_1] = 0 /\ scores[PLAYER_2] = 0
    /\ current_player = PLAYER_1

\* C24: a new match starts with an empty board, both scores 0 and the first
\* player to move, and only moves submitted after it started change that: a
\* fresh match, in which no click has been made, is not changed by an AI turn
\* (which can only have been scheduled during an earlier match).
C24_NewMatchFreshAndOwn ==
    /\ [][ event'.op = "_start_new_game" => Fresh' ]_vars
    /\ [][ (Fresh /\ event'.op = "_make_ai_move") => UNCHANGED gameVars ]_vars

----------------------------------------------------------------------------
(* C25 *)

\* C25: in an AI mode, while a match is in progress and the second player (the
\* AI) is to move, an AI turn is scheduled.
C25_AiTurnPendingWhenAiToMove ==
    (InProgress /\ _mode # "PVP" /\ current_player = PLAYER_2) => _root_after > 0

----------------------------------------------------------------------------
(* C26 *)

\* C26: every mark is counted as captured at most once, so the score of a
\* player is at most the number of marks the other player holds on the board.
C26_ScoreWithinOpponentMarks ==
    /\ scores[PLAYER_1] <= MarksOf(PLAYER_2)
    /\ scores[PLAYER_2] <= MarksOf(PLAYER_1)

----------------------------------------------------------------------------
(* C30 *)

\* The neighbours of the mark placed at (x, y) that hold a mark of opp and lie
\* in the region seeded at n: the directions the region is reached from.
DirectionsInto(gr, x, y, n, opp) == SeedsIn(gr, x, y, opp) \cap RegionIn(gr, n, opp)

\* No neighbour of the mark placed at (x, y) seeds an enclosed region of opp
\* other than the one seeded at n.
OnlyEnclosed(gr, x, y, n, opp) ==
    \A o \in SeedsIn(gr, x, y, opp) :
        EnclosedIn(gr, RegionIn(gr, o, opp), opp) => o \in RegionIn(gr, n, opp)

\* C30: an accepted move that encloses an opponent group of k opponent marks
\* reached from d of the four neighbours of the placed mark adds exactly d * k
\* to the mover's score.
C30_CaptureAddsPerDirection ==
    [][ (PlaceDotCalled /\ EmptyCell(call'.x, call'.y))
          => \A n \in SeedsIn(_grid', call'.x, call'.y, Other(current_player)) :
                 EnclosedIn(_grid', RegionIn(_grid', n, Other(current_player)), Other(current_player))
                   => scores'[current_player] = scores[current_player]
                        + Cardinality(DirectionsInto(_grid', call'.x, call'.y, n,
                                                     Other(current_player)))
                          * MarksIn(_grid', RegionIn(_grid', n, Other(current_player)),
                                    Other(current_player)) ]_vars

\* C30 amended: ... when the move does not fill the board and no other
\* neighbour of the placed mark seeds a different enclosed opponent group.
C30_SingleGroupAddsPerDirection ==
    [][ AcceptedNotFilling
          => \A n \in SeedsIn(_grid', call'.x, call'.y, Other(current_player)) :
                 ( /\ EnclosedIn(_grid', RegionIn(_grid', n, Other(current_player)),
                                 Other(current_player))
                   /\ OnlyEnclosed(_grid', call'.x, call'.y, n, Other(current_player)) )
                   => scores'[current_player] = scores[current_player]
                        + Cardinality(DirectionsInto(_grid', call'.x, call'.y, n,
                                                     Other(current_player)))
                          * MarksIn(_grid', RegionIn(_grid', n, Other(current_player)),
                                    Other(current_player)) ]_vars

\* The move just made enclosed one opponent group, reached from two or more
\* neighbours of the placed mark, and scored once for each.
C30_Witness ==
    /\ AfterAcceptedNotFilling
    /\ \E n \in SeedsIn(_grid, call.x, call.y, Other(current_player)) :
           /\ EnclosedIn(_grid, RegionIn(_grid, n, Other(current_player)), Other(current_player))
           /\ OnlyEnclosed(_grid, call.x, call.y, n, Other(current_player))
           /\ Cardinality(DirectionsInto(_grid, call.x, call.y, n, Other(current_player))) >= 2
           /\ last_captured
                = Cardinality(DirectionsInto(_grid, call.x, call.y, n, Other(current_player)))
                  * MarksIn(_grid, RegionIn(_grid, n, Other(current_player)), Other(current_player))

----------------------------------------------------------------------------
(* C27 *)

\* C27: in an AI mode every mark a click places is the first player's and
\* every mark an AI turn places is the second player's.
C27_HumanIsFirstAiIsSecond ==
    [][ (TurnHandled /\ _mode' # "PVP" /\ event'.placed # <<>>)
          => _grid'[event'.placed[2]][event'.placed[1]]
               = (IF event'.op = "_on_canvas_click" THEN PLAYER_1 ELSE PLAYER_2) ]_vars

----------------------------------------------------------------------------
(* C28 *)

\* End-of-match handling has just run for the match that is still held.
EndHandlingStarted == event.end_game /\ _game_logic

\* C28: once _end_game has run for a match, no later canvas click or AI turn
\* changes the board, the scores or the current player of that match.
C28_NoMoveAfterEndGame ==
    [][ (EndHandlingStarted /\ event'.op \in {"_on_canvas_click", "_make_ai_move"})
          => UNCHANGED <<_grid, scores, current_player>> ]_vars

----------------------------------------------------------------------------
(* C29 *)

\* What the strategy of the mode can leave behind on the object held.
StrategyOutcomes ==
    IF _mode = "PVAIR" THEN make_ai_move_random(Obj) ELSE make_ai_move_smart(Obj)

AiTurnRan == event'.op = "_make_ai_move" /\ event'.ran

\* C29: the place_dot call _make_ai_move makes on the cell the strategy
\* returned is rejected and changes nothing; so an AI turn adds at most one
\* mark, leaves the board, the counter and the scores as the one accepted
\* place_dot on that cell leaves them, and switches the current player once
\* when a cell was returned and not at all otherwise.
C29_AiTurnPlacesAndScoresOnce ==
    /\ [](_game_logic =>
            \A s \in StrategyOutcomes :
                s.move # <<>> =>
                    place_dot(s.g, s.move[1], s.move[2]) = [g |-> s.g, ret |-> FALSE])
    /\ [][ AiTurnRan =>
             /\ Cardinality({c \in Cells : _grid'[c[2]][c[1]] # _grid[c[2]][c[1]]}) <= 1
             /\ _filled_cells' <= _filled_cells + 1
             /\ IF event'.placed = <<>>
                THEN UNCHANGED <<_grid, _filled_cells, scores>>
                ELSE \E r \in {place_dot(Obj, event'.placed[1], event'.placed[2])} :
                        /\ _grid' = r.g.grid
                        /\ _filled_cells' = r.g.filled_cells
                        /\ scores' = r.g.scores
             /\ current_player' = (IF event'.move # <<>> THEN Other(current_player)
                                                         ELSE current_player) ]_vars

\* An AI turn has placed a mark that captured, and reported its cell.
C29_Witness ==
    /\ event.op = "_make_ai_move" /\ event.ran
    /\ event.move # <<>> /\ event.placed = event.move
    /\ _grid[event.move[2]][event.move[1]] = PLAYER_2
    /\ last_captured > 0
    /\ scores[PLAYER_2] > 0
    /\ current_player = PLAYER_1

----------------------------------------------------------------------------
(* C31 *)

\* What the calls logged in log added to the score of player.
RECURSIVE CreditIn(_, _)
CreditIn(log, player) ==
    IF log = <<>> THEN 0
    ELSE (IF Head(log)[1] = "scores" /\ Head(log)[2] = player THEN Head(log)[3] ELSE 0)
         + CreditIn(Tail(log), player)

\* C31: after an accepted move that does not fill the board, last_captured is
\* the amount the move added to the mover's score (0 when it added nothing);
\* what self-capture credits goes to the opponent and is not part of it.
C31_LastCapturedIsMoversGain ==
    [][ AcceptedNotFilling
          => /\ last_captured' = scores'[current_player] - scores[current_player]
             /\ last_captured' = CreditIn(_game_ui', current_player)
             /\ scores'[Other(current_player)] - scores[Other(current_player)]
                  = CreditIn(_game_ui', Other(current_player)) ]_vars

\* The move just made gave the opponent self-capture credit, and last_captured
\* holds the mover's own gain.
C31_Witness ==
    /\ AfterAcceptedNotFilling
    /\ CreditIn(_game_ui, Other(Mark(<<call.x, call.y>>))) > 0
    /\ last_captured = CreditIn(_game_ui, Mark(<<call.x, call.y>>))

----------------------------------------------------------------------------
(* C32 *)

\* What the step added to the score of the player who was to move.
MoversGain == scores'[current_player] - scores[current_player]

\* C32: every accepted move, the board-filling one included, overwrites
\* last_captured with its own count, so a capture message is shown only after
\* a move that captured at least one mark, and reports the count of that move.
C32_MessageReportsThatMove ==
    /\ [][ (TurnHandled /\ event'.placed # <<>>) => last_captured' = MoversGain ]_vars
    /\ [][ (TurnHandled /\ event'.message # <<>>)
             => /\ event'.placed # <<>>
                /\ MoversGain >= 1
                /\ event'.message[2] = MoversGain ]_vars

----------------------------------------------------------------------------
(* C33 *)

\* C33: for every in-bounds seed and every owner, the group returned by
\* _get_group_with_status starts with the seed, holds no cell twice, and is
\* the set of cells reached from the seed by steps to adjacent in-bounds cells
\* that are empty or the owner's.
C33_GroupIsReachableRegion ==
    \A c \in Cells, p \in {PLAYER_1, PLAYER_2} :
        \E grp \in {GroupAt(c, p).group} :
            /\ Len(grp) >= 1 /\ grp[1] = c
            /\ \A i, j \in 1..Len(grp) : grp[i] = grp[j] => i = j
            /\ SeqToSet(grp) = RegionIn(_grid, c, p)

\* A group holds a mark of the owner and an empty cell besides the seed, and
\* leaves out an empty or owned cell that the other colour cuts off.
C33_Witness ==
    \E c \in Cells, p \in {PLAYER_1, PLAYER_2} :
        \E grp \in {SeqToSet(GroupAt(c, p).group)} :
            /\ \E d \in grp \ {c} : Mark(d) = p
            /\ \E d \in grp \ {c} : Mark(d) = EMPTY_CELL
            /\ \E d \in Cells \ grp : Mark(d) \in {p, EMPTY_CELL}
            /\ grp = RegionIn(_grid, c, p)

----------------------------------------------------------------------------
(* C34 *)

\* The empty cells of grid gr next, in one of the eight directions, to a mark
\* of the first player.
CandidatesIn(gr) ==
    {c \in Cells : /\ gr[c[2]][c[1]] = EMPTY_CELL
                   /\ \E d \in Cells : Adjacent8(c, d) /\ gr[d[2]][d[1]] = PLAYER_1}

\* +3 for each adjacent mark of the first player, +1 for each of the second.
ProximityIn(gr, c) ==
    3 * Cardinality({d \in Cells : Adjacent8(c, d) /\ gr[d[2]][d[1]] = PLAYER_1})
    + Cardinality({d \in Cells : Adjacent8(c, d) /\ gr[d[2]][d[1]] = PLAYER_2})

BestIn(gr) ==
    {c \in CandidatesIn(gr) : \A d \in CandidatesIn(gr) : ProximityIn(gr, c) >= ProximityIn(gr, d)}

\* The smart AI finds no capturing move and has a candidate.
StrategicCase == _find_capture_move(Obj) = <<>> /\ CandidatesIn(_grid) # {}

\* C34: when the smart AI finds no capturing move and some empty cell is next
\* to a mark of the first player, the cells it can place on are exactly the
\* candidates of maximum proximity score, and the cell it places on is one.
C34_SmartPlacesOnBestCandidate ==
    /\ [](StrategicCase
            => { Placed(Obj, r.g) : r \in make_ai_move_smart(Obj) } = BestIn(_grid))
    /\ [][ (StrategicCase /\ call'.op = "make_ai_move_smart")
             => call'.placed \in BestIn(_grid) ]_vars

\* The smart AI has just placed on one of several best candidates, on a board
\* without capturing move that also had a candidate of lower score.
C34_Witness ==
    /\ call.op = "make_ai_move_smart"
    /\ call.placed # <<>>
    /\ \E gr \in {[_grid EXCEPT ![call.placed[2]][call.placed[1]] = EMPTY_CELL]} :
          /\ _find_capture_move([Obj EXCEPT !.grid = gr]) = <<>>
          /\ call.placed \in BestIn(gr)
          /\ Cardinality(BestIn(gr)) >= 2
          /\ CandidatesIn(gr) # BestIn(gr)

----------------------------------------------------------------------------
(* C35 *)

\* The traversal of _get_group_with_status alone: the group and the flag as
\* the while loop leaves them, before the re-scan.
TraversalAt(c, p) ==
    Traverse(Obj, p, <<>>, [queue |-> <<c>>, visited |-> {c}, is_surrounded |-> TRUE])

\* C35: for every seed and owner the re-scan finds nothing, so the verdict of
\* _get_group_with_status is the flag the traversal left, which is "no cell of
\* the group lies on the board edge".
C35_VerdictIsNoEdgeCell ==
    \A c \in Cells, p \in {PLAYER_1, PLAYER_2} :
        \E t \in {TraversalAt(c, p)}, r \in {GroupAt(c, p)} :
            /\ ~RescanViolated(Obj, t.group, Other(p))
            /\ r.group = t.group
            /\ r.is_surrounded = t.is_surrounded
            /\ r.is_surrounded = (\A e \in SeqToSet(t.group) : ~OnEdge(e))

\* One group is reported enclosed although it holds an empty cell and has
\* neighbours outside it, and another, away from the seed's edge, is not.
C35_Witness ==
    /\ \E c \in Cells, p \in {PLAYER_1, PLAYER_2} :
          /\ GroupAt(c, p).is_surrounded
          /\ \E e \in SeqToSet(GroupAt(c, p).group) : Mark(e) = EMPTY_CELL
          /\ \E e \in SeqToSet(GroupAt(c, p).group), d \in Cells :
                Adjacent(e, d) /\ d \notin SeqToSet(GroupAt(c, p).group)
    /\ \E c \in Cells, p \in {PLAYER_1, PLAYER_2} :
          /\ ~OnEdge(c)
          /\ ~GroupAt(c, p).is_surrounded

----------------------------------------------------------------------------
(* C36 *)

\* C36: when the second player is to move, _find_capture_move returns a cell
\* and placing there does not fill the board, make_ai_move_smart places on that
\* cell and the second player's score rises by at least 1.
C36_CaptureMoveScores ==
    [][ ( /\ current_player = PLAYER_2
          /\ call'.op = "make_ai_move_smart"
          /\ _find_capture_move(Obj) # <<>>
          /\ _filled_cells + 1 < TotalCells )
          => /\ call'.placed = _find_capture_move(Obj)
             /\ scores'[PLAYER_2] >= scores[PLAYER_2] + 1 ]_vars

\* The smart AI, moving second, has just placed on the cell _find_capture_move
\* returned, without filling the board, and captured.
C36_Witness ==
    /\ call.op = "make_ai_move_smart"
    /\ call.placed # <<>>
    /\ call.move = call.placed
    /\ current_player = PLAYER_2
    /\ Mark(call.placed) = PLAYER_2
    /\ _filled_cells < TotalCells
    /\ last_captured >= 1
    /\ scores[PLAYER_2] >= 1
    /\ \E gr \in {[_grid EXCEPT ![call.placed[2]][call.placed[1]] = EMPTY_CELL]} :
          _find_capture_move([Obj EXCEPT !.grid = gr]) = call.placed

----------------------------------------------------------------------------
(* C37 *)

\* The cells on which grids a and b differ.
Changed(a, b) == {c \in Cells : a[c[2]][c[1]] # b[c[2]][c[1]]}

\* What one outcome r of make_ai_move_random on the object held satisfies.
RandomOutcomeOk(r) ==
    /\ Cardinality(Changed(_grid, r.g.grid)) <= 1
    /\ r.move # <<>>
         => /\ EmptyCell(r.move[1], r.move[2])
            /\ r.g.grid[r.move[2]][r.move[1]] = current_player
            /\ Changed(_grid, r.g.grid) = {r.move}
    /\ r.move = <<>>
         => \/ /\ r.g.filled_cells = TotalCells
               /\ Cardinality(Changed(_grid, r.g.grid)) = 1
            \/ r.g = Obj

\* C37: make_ai_move_random ends after at most MAX_ATTEMPTS draws and places
\* at most one mark; a coordinate returned names a cell that was empty and now
\* holds the current player's mark; when None is returned either the placement
\* filled the board or nothing changed.
C37_RandomMoveBounded ==
    /\ [](\E loop \in {RandomLoop(Obj)} :
            /\ \A o \in loop : o.samples <= MAX_ATTEMPTS
            /\ make_ai_move_random(Obj)
                 = { IF c = <<>> THEN AiResult(Obj, <<>>)
                                 ELSE _execute_ai_move(Obj, c[1], c[2]) :
                       c \in {o.cell : o \in loop} }
            /\ \A r \in make_ai_move_random(Obj) : RandomOutcomeOk(r))
    /\ [][ call'.op = "make_ai_move_random"
             => RandomOutcomeOk([g |-> [Obj EXCEPT !.grid = _grid',
                                                  !.filled_cells = _filled_cells',
                                                  !.scores = scores',
                                                  !.lines = lines',
                                                  !.last_captured = last_captured'],
                                 move |-> call'.move]) ]_vars

\* make_ai_move_random has just returned the cell it placed on although the
\* board held occupied cells, so that it could also have given up.
C37_Witness ==
    /\ call.op = "make_ai_move_random"
    /\ call.move # <<>>
    /\ call.placed = call.move
    /\ Mark(call.move) = current_player
    /\ _filled_cells >= 2
    /\ _filled_cells < TotalCells

----------------------------------------------------------------------------
(* C38 *)

\* The object the variables hold after the step.
ObjAfter ==
    [Obj EXCEPT !.grid = _grid', !.filled_cells = _filled_cells', !.scores = scores',
                !.current_player = current_player', !.lines = lines',
                !.last_captured = last_captured', !.game_ui = _game_ui']

\* C38: the search of the smart AI leaves the object as it is.  Every outcome
\* of _find_strategic_move returns the object it was called on, with the moves
\* the search can return; and a smart move leaves exactly what one place_dot
\* on the placed cell leaves, or nothing when no mark was placed, so neither
\* _find_capture_move nor the group analysis under it has written anything.
C38_SearchLeavesObject ==
    /\ [](/\ \A r \in FindStrategicMoveCall(Obj) : r.g = Obj
          /\ {r.move : r \in FindStrategicMoveCall(Obj)} \ {<<>>} = _find_strategic_move(Obj))
    /\ [][ call'.op = "make_ai_move_smart"
             => IF call'.placed = <<>>
                THEN UNCHANGED gameVars
                ELSE ObjAfter = place_dot(Obj, call'.placed[1], call'.placed[2]).g ]_vars

\* The smart AI has just placed a mark found by the strategic search, after
\* the capture search had probed groups of the first player and found nothing.
C38_Witness ==
    /\ call.op = "make_ai_move_smart"
    /\ call.placed # <<>>
    /\ \E before \in {[Obj EXCEPT !.grid[call.placed[2]][call.placed[1]] = EMPTY_CELL,
                                  !.filled_cells = @ - 1]} :
          /\ _find_capture_move(before) = <<>>
          /\ call.placed \in _find_strategic_move(before)
          /\ \E c \in Cells : /\ before.grid[c[2]][c[1]] = EMPTY_CELL
                              /\ \E n \in Neighbours4(c[1], c[2]) : Mark(n) = PLAYER_1
          /\ \A r \in FindStrategicMoveCall(before) : r.g = before

----------------------------------------------------------------------------
(* C39 *)

\* C39: when update_leaderboard(name, score) returns True, the list persisted
\* holds a record with that name and that score, whatever the name.
C39_AcceptedCandidatePersisted ==
    [][ (UpdateCalled /\ lb_call'.ret)
          => /\ _leaderboard_file'.exists
             /\ \E i \in 1..Len(_leaderboard_file'.data) :
                   /\ _leaderboard_file'.data[i].name = lb_call'.new_name
                   /\ _leaderboard_file'.data[i].score = lb_call'.new_score ]_vars

----------------------------------------------------------------------------
(* C40 *)

\* The click that filled the board has ended the match.
BoardFullEnd ==
    /\ event.op = "_on_canvas_click"
    /\ event.end_game
    /\ _filled_cells = TotalCells

\* C40: a new match starts with the counter at 0, every accepted move adds
\* exactly 1 to it and nothing else changes it, and it never exceeds the
\* number of cells, so a match has at most that many accepted moves; in
\* two-player mode, when valid moves keep being submitted, the match reaches
\* the board-full end, with the counter at the number of cells.
C40_MatchTerminates ==
    /\ [][ event'.op = "_start_new_game" => _filled_cells' = 0 ]_vars
    /\ [][ (TurnHandled /\ event'.placed # <<>>) => _filled_cells' = _filled_cells + 1 ]_vars
    /\ [][ (event'.op # "_start_new_game" /\ ~(TurnHandled /\ event'.placed # <<>>))
             => UNCHANGED _filled_cells ]_vars
    /\ [](_filled_cells <= TotalCells)
    /\ [][ (TurnHandled /\ event'.end_game) => _filled_cells' = TotalCells ]_vars
    /\ (_game_logic /\ _mode = "PVP") ~> BoardFullEnd

\* A two-player match on a board of several cells has ended on the click that
\* filled the board.
C40_Witness ==
    /\ BoardFullEnd
    /\ _mode = "PVP"
    /\ TotalCells >= 3
    /\ \A c \in Cells : Mark(c) # EMPTY_CELL

====
